---- MODULE Spec2Model ----
(***************************************************************************)
(* State engine of the aggregate functions min, max, any, anyLast,         *)
(* anyHeavy and singleValueOrNull (AggregateFunctionMinMaxAny.h).          *)
(*                                                                         *)
(* An aggregate state is a record.  Its shape follows the slot variant:    *)
(*   Fixed   : has_value, value                                            *)
(*   String  : size, capacity, small_data, large_data                      *)
(*   Generic : value                                                       *)
(* plus the fields the policies add (counter; first_value, is_null).       *)
(* A value that C++ leaves indeterminate (T value; with no initializer) is *)
(* the empty sequence; a reader of it gets a nondeterministic value g.     *)
(***************************************************************************)
EXTENDS Integers, Sequences, FiniteSets, TLC

\* ------------------------------------------------------------------ bounds

\* Fixed-width values range over -MaxVal .. MaxVal.
MaxVal == 1
\* Bytes of a string range over 0 .. MaxByte.
MaxByte == 1
\* Short input strings have at most MaxShortLen bytes.
MaxShortLen == 2
\* At most MaxRows rows are added in one behaviour.
MaxRows == 3
\* At most MaxWireRows rows are added in a behaviour that also serializes.
MaxWireRows == 2
\* At most MaxWireOps serialize, receive and deserialize calls in one behaviour.
MaxWireOps == 2
\* At most MaxHeavyRows rows are added to the one state of a majority vote.
MaxHeavyRows == 5
\* At most MaxBatchRows rows are offered in a behaviour that adds batches and runs;
\* a call that offers no row counts as one.
MaxBatchRows == 3
\* At most MaxMixRows rows are offered in a behaviour that also merges.
MaxMixRows == 2
\* At most MaxCtorPlaces states are created after a construction.
MaxCtorPlaces == 2
\* Row indices given to a Selector range over 0 .. MaxIndex.
MaxIndex == 2
\* An index list given to a Selector has at most MaxSelLen entries.
MaxSelLen == 3
\* A block given to a ScatteredBlock has at most MaxBlockRows rows.
MaxBlockRows == 3
\* At most MaxBridgeCalls calls are made on a bridge helper and its bridge.
MaxBridgeCalls == 4

\* --------------------------------------------------------------- constants

AUTOMATIC_STORAGE_SIZE == 64
SIZEOF_SIZE == 4
SIZEOF_CAPACITY == 4
SIZEOF_LARGE_DATA == 8
MAX_SMALL_STRING_SIZE ==
    AUTOMATIC_STORAGE_SIZE - SIZEOF_SIZE - SIZEOF_CAPACITY - SIZEOF_LARGE_DATA

Slots == {"Fixed", "String", "Generic"}
Policies == {"min", "max", "any", "anyLast", "anyHeavy", "singleValueOrNull"}

\* ------------------------------------------------------------ input values

FixedValues == (-MaxVal) .. MaxVal
Bytes == 0 .. MaxByte

RECURSIVE Rep(_, _)
Rep(b, n) == IF n <= 0 THEN <<>> ELSE <<b>> \o Rep(b, n - 1)

RECURSIVE SeqsUpTo(_, _)
SeqsUpTo(S, n) ==
    IF n = 0 THEN {<<>>}
    ELSE LET shorter == SeqsUpTo(S, n - 1)
         IN  shorter \cup {Append(s, b) : s \in shorter, b \in S}

ShortStrings == SeqsUpTo(Bytes, MaxShortLen)
\* Strings at and just over the inline threshold, with and without a final zero.
LongStrings ==
    { Rep(MaxByte, MAX_SMALL_STRING_SIZE),
      Rep(MaxByte, MAX_SMALL_STRING_SIZE + 1),
      Rep(MaxByte, MAX_SMALL_STRING_SIZE) \o <<0>> }
StringValues == ShortStrings \cup LongStrings

ValuesOf(slot) == IF slot = "String" THEN StringValues ELSE FixedValues

\* The values of the rows of a batch: for strings the empty string, a one-byte
\* string, a string ending in a zero byte and a string that is not stored inline.
ColumnValues(slot) ==
    IF slot = "String"
    THEN {<<>>, <<MaxByte>>, <<MaxByte, 0>>, Rep(MaxByte, MAX_SMALL_STRING_SIZE + 1)}
    ELSE FixedValues
\* The largest power of two an Int32 holds, 2^30.
INT32_MAX_POWER_OF_TWO == 1073741824

\* The lengths of the strings of sized rows: around the inline threshold, around the
\* first arena capacity, and around the largest power of two an Int32 holds.
SizedLengths ==
    {MAX_SMALL_STRING_SIZE, MAX_SMALL_STRING_SIZE + 1,
     AUTOMATIC_STORAGE_SIZE, AUTOMATIC_STORAGE_SIZE + 1,
     INT32_MAX_POWER_OF_TWO, INT32_MAX_POWER_OF_TWO + 1}
\* The bytes of a sized row that are tracked: those up to one past the inline
\* threshold.
TrackedLength(n) == IF n <= MAX_SMALL_STRING_SIZE + 1 THEN n ELSE MAX_SMALL_STRING_SIZE + 1
\* getDataAt(row_num) of a row whose string has n bytes.
SizedRef(n) == [data |-> Rep(MaxByte, TrackedLength(n)), size |-> n]

\* The stored lengths of received bytes: negative, zero and up to one more than the
\* bytes that follow.
StoredLengths == (-2) .. (MaxShortLen + 1)
\* The entries of a filter column and of a null map.
FlagValues == 0 .. 1

\* ----------------------------------------------------------------- helpers

Range(f) == {f[i] : i \in DOMAIN f}
Take(buf, n) == IF n <= 0 THEN <<>> ELSE SubSeq(buf, 1, IF n < Len(buf) THEN n ELSE Len(buf))
Drop(buf, n) == IF n <= 0 THEN buf ELSE SubSeq(buf, n + 1, Len(buf))
\* memcpy(dst, src, Len(src)): the first bytes of dst are replaced.
Overlay(dst, src) == src \o SubSeq(dst, Len(src) + 1, Len(dst))

\* The elements of a set of integers in ascending order.
RECURSIVE SortedSeq(_)
SortedSeq(S) ==
    IF S = {} THEN <<>>
    ELSE LET m == CHOOSE x \in S : \A y \in S : x <= y
         IN  <<m>> \o SortedSeq(S \ {m})

RECURSIVE LexLess(_, _)
LexLess(a, b) ==
    IF b = <<>> THEN FALSE
    ELSE IF a = <<>> THEN TRUE
    ELSE IF Head(a) # Head(b) THEN Head(a) < Head(b)
    ELSE LexLess(Tail(a), Tail(b))

RECURSIVE RoundUpFrom(_, _)
RoundUpFrom(p, n) == IF p >= n THEN p ELSE RoundUpFrom(2 * p, n)
roundUpToPowerOfTwoOrZero(n) == IF n = 0 THEN 0 ELSE RoundUpFrom(1, n)

\* capacity = static_cast<UInt32>(roundUpToPowerOfTwoOrZero(n)) for an Int32 n >= 0:
\* above 2^30 the rounded value is 2^31, which the Int32 field capacity holds as -2^31.
CapacityFor(n) ==
    IF n > INT32_MAX_POWER_OF_TWO
    THEN (-INT32_MAX_POWER_OF_TWO) - INT32_MAX_POWER_OF_TWO
    ELSE roundUpToPowerOfTwoOrZero(n)

\* ------------------------------------------------------ freshly created states

\* SingleValueDataFixed<T>: has_value = false; value is left indeterminate.
FixedFresh ==
    [has_value |-> FALSE, value |-> <<>>,
     counter |-> 0, first_value |-> TRUE, is_null |-> FALSE]

\* SingleValueDataString: size = -1, capacity = 0; the buffers are indeterminate.
\* allocs counts the arena->alloc calls made for this state.
StringFresh ==
    [size |-> -1, capacity |-> 0, small_data |-> <<>>, large_data |-> <<>>,
     allocs |-> 0,
     counter |-> 0, first_value |-> TRUE, is_null |-> FALSE]

\* SingleValueDataGeneric: Field value, default-constructed Null (the empty sequence).
GenericFresh ==
    [value |-> <<>>,
     counter |-> 0, first_value |-> TRUE, is_null |-> FALSE]

Fresh(slot) ==
    CASE slot = "Fixed" -> FixedFresh
      [] slot = "String" -> StringFresh
      [] slot = "Generic" -> GenericFresh

\* ------------------------------------------------------------------- FixedSlot

FixedHas(s) == s.has_value

\* A read of the member `value`; g is what an indeterminate value reads as.
FixedValue(s, g) == IF s.value = <<>> THEN g ELSE s.value[1]

FixedInsertResultInto(s) == IF FixedHas(s) THEN s.value[1] ELSE 0

FixedWrite(s) == IF FixedHas(s) THEN <<1, s.value[1]>> ELSE <<0>>

\* readBinary and deserializeBinary throw when the buffer ends before the value.
FixedReadThrows(buf) == buf = <<>> \/ (buf[1] # 0 /\ Len(buf) < 2)

\* What read leaves in the state, up to the throw if it throws.
FixedRead(s, buf) ==
    LET has1 == [s EXCEPT !.has_value = (buf[1] # 0)]
    IN  IF FixedHas(has1)
        THEN [s |-> [has1 EXCEPT !.value = IF Len(buf) >= 2 THEN <<buf[2]>> ELSE @],
              rest |-> Drop(buf, 2)]
        ELSE [s |-> has1, rest |-> Tail(buf)]

FixedChangeRow(s, v) == [s EXCEPT !.has_value = TRUE, !.value = <<v>>]

FixedChangeState(s, to, g) == [s EXCEPT !.has_value = TRUE, !.value = <<FixedValue(to, g)>>]

FixedIsEqualToRow(s, v) == FixedHas(s) /\ v = s.value[1]

FixedIsEqualToState(s, to, g) == FixedHas(s) /\ FixedValue(to, g) = s.value[1]

\* ------------------------------------------------------------------ StringSlot

StringHas(s) == s.size >= 1

StringGetData(s) == IF s.size <= MAX_SMALL_STRING_SIZE THEN s.small_data ELSE s.large_data

\* StringRef(getData(), size): the size is kept as the signed field it comes from.
StringGetStringRef(s) == [data |-> Take(StringGetData(s), s.size), size |-> s.size]

\* getDataAt(row_num) of a ColumnString: the bytes of the row, without a terminator.
RowRef(v) == [data |-> v, size |-> Len(v)]

\* Mutant: a final zero byte is emitted with the string.
StringInsertResultInto_NoStrip(s) ==
    IF StringHas(s) THEN Take(StringGetData(s), s.size) ELSE <<>>

StringInsertResultInto(s) ==
    IF StringHas(s)
    THEN LET data == StringGetData(s)
             final_size == IF data[s.size] # 0 THEN s.size ELSE s.size - 1
         IN  IF final_size # 0 THEN Take(data, final_size) ELSE <<>>
    ELSE <<>>

\* Mutant: a zero byte is appended whatever the last byte is.
StringWrite_AlwaysTerminate(s) ==
    IF ~StringHas(s)
    THEN <<1, 0>>
    ELSE <<s.size + 1>> \o Take(StringGetData(s), s.size) \o <<0>>

\* Mutant: the bytes are written without a terminating zero.
StringWrite_NoTerminator(s) ==
    IF ~StringHas(s)
    THEN <<1, 0>>
    ELSE <<s.size>> \o Take(StringGetData(s), s.size)

StringWrite(s) ==
    IF ~StringHas(s)
    THEN <<1, 0>>
    ELSE LET data == StringGetData(s)
         IN  IF data[s.size] # 0
             THEN <<s.size + 1>> \o Take(data, s.size) \o <<0>>
             ELSE <<s.size>> \o Take(data, s.size)

\* readBinary throws on an exhausted buffer, readStrict when fewer than size bytes
\* are left.
StringReadThrows(buf) == buf = <<>> \/ (buf[1] >= 0 /\ Len(buf) < 1 + buf[1])

\* What read leaves in the state, up to the throw if it throws.
StringRead(s, buf) ==
    LET rhs_size == buf[1]
        bytes == Take(Tail(buf), rhs_size)
        rest == Drop(buf, 1 + (IF rhs_size >= 0 THEN rhs_size ELSE 0))
    IN  IF rhs_size >= 0
        THEN IF rhs_size <= MAX_SMALL_STRING_SIZE
             THEN [s |-> [s EXCEPT !.size = rhs_size,
                                   !.small_data = IF rhs_size > 0 THEN Overlay(@, bytes) ELSE @],
                   rest |-> rest]
             ELSE LET grown == IF s.capacity < rhs_size
                               THEN [s EXCEPT !.capacity = CapacityFor(rhs_size),
                                              !.large_data = <<>>,
                                              !.allocs = @ + 1]
                               ELSE s
                  IN  [s |-> [grown EXCEPT !.size = rhs_size,
                                           !.large_data = Overlay(@, bytes)],
                       rest |-> rest]
        ELSE [s |-> [s EXCEPT !.size = rhs_size], rest |-> rest]

\* value.size is a size_t; static_cast<Int32> gives back the signed size it came from.
StringChangeImpl(s, value) ==
    LET value_size == value.size
    IN  IF value_size <= MAX_SMALL_STRING_SIZE
        THEN [s EXCEPT !.size = value_size,
                       !.small_data = IF value_size > 0 THEN Overlay(@, value.data) ELSE @]
        ELSE LET grown == IF s.capacity < value_size
                          THEN [s EXCEPT !.capacity = CapacityFor(value_size),
                                         !.large_data = <<>>,
                                         !.allocs = @ + 1]
                          ELSE s
             IN  [grown EXCEPT !.size = value_size,
                               !.large_data = Overlay(@, value.data)]

StringChangeRow(s, v) == StringChangeImpl(s, RowRef(v))

StringChangeState(s, to) == StringChangeImpl(s, StringGetStringRef(to))

\* StringRef equality: the sizes are equal and so are the bytes.
RefEq(a, b) == a.size = b.size /\ a.data = b.data

\* StringRef order: bytewise lexicographic, a proper prefix first.
RefLess(a, b) == LexLess(a.data, b.data)

StringIsEqualToRow(s, v) == StringHas(s) /\ RefEq(RowRef(v), StringGetStringRef(s))

StringIsEqualToState(s, to) == StringHas(s) /\ RefEq(StringGetStringRef(to), StringGetStringRef(s))

\* ----------------------------------------------------------------- GenericSlot

GenericHas(s) == s.value # <<>>

GenericInsertResultInto(s) == IF GenericHas(s) THEN s.value[1] ELSE 0

GenericWrite(s) == IF s.value # <<>> THEN <<1, s.value[1]>> ELSE <<0>>

GenericReadThrows(buf) == buf = <<>> \/ (buf[1] # 0 /\ Len(buf) < 2)

\* What read leaves in the state, up to the throw if it throws.
GenericRead(s, buf) ==
    LET is_not_null == buf[1] # 0
    IN  IF is_not_null
        THEN [s |-> [s EXCEPT !.value = IF Len(buf) >= 2 THEN <<buf[2]>> ELSE @],
              rest |-> Drop(buf, 2)]
        ELSE [s |-> s, rest |-> Tail(buf)]

GenericChangeRow(s, v) == [s EXCEPT !.value = <<v>>]

GenericChangeState(s, to) == [s EXCEPT !.value = to.value]

GenericIsEqualToRow(s, v) == GenericHas(s) /\ s.value = <<v>>

GenericIsEqualToState(s, to) == GenericHas(s) /\ to.value = s.value

\* ------------------------------------------- the slot contract, by slot variant

has(slot, s) ==
    CASE slot = "Fixed" -> FixedHas(s)
      [] slot = "String" -> StringHas(s)
      [] slot = "Generic" -> GenericHas(s)

changeRow(slot, s, v) ==
    CASE slot = "Fixed" -> FixedChangeRow(s, v)
      [] slot = "String" -> StringChangeRow(s, v)
      [] slot = "Generic" -> GenericChangeRow(s, v)

changeState(slot, s, to, g) ==
    CASE slot = "Fixed" -> FixedChangeState(s, to, g)
      [] slot = "String" -> StringChangeState(s, to)
      [] slot = "Generic" -> GenericChangeState(s, to)

isEqualToRow(slot, s, v) ==
    CASE slot = "Fixed" -> FixedIsEqualToRow(s, v)
      [] slot = "String" -> StringIsEqualToRow(s, v)
      [] slot = "Generic" -> GenericIsEqualToRow(s, v)

isEqualToState(slot, s, to, g) ==
    CASE slot = "Fixed" -> FixedIsEqualToState(s, to, g)
      [] slot = "String" -> StringIsEqualToState(s, to)
      [] slot = "Generic" -> GenericIsEqualToState(s, to)

\* row value < stored value, read only when has(slot, s)
RowLess(slot, v, s) ==
    CASE slot = "Fixed" -> v < s.value[1]
      [] slot = "String" -> RefLess(RowRef(v), StringGetStringRef(s))
      [] slot = "Generic" -> v < s.value[1]

RowGreater(slot, v, s) ==
    CASE slot = "Fixed" -> v > s.value[1]
      [] slot = "String" -> RefLess(StringGetStringRef(s), RowRef(v))
      [] slot = "Generic" -> v > s.value[1]

\* to.value < value, read only when has(slot, to) and has(slot, s)
StateLess(slot, to, s) ==
    CASE slot = "Fixed" -> to.value[1] < s.value[1]
      [] slot = "String" -> RefLess(StringGetStringRef(to), StringGetStringRef(s))
      [] slot = "Generic" -> to.value[1] < s.value[1]

StateGreater(slot, to, s) ==
    CASE slot = "Fixed" -> to.value[1] > s.value[1]
      [] slot = "String" -> RefLess(StringGetStringRef(s), StringGetStringRef(to))
      [] slot = "Generic" -> to.value[1] > s.value[1]

changeFirstTimeRow(slot, s, v) ==
    IF ~has(slot, s) THEN changeRow(slot, s, v) ELSE s

\* Mutant: the destination is overwritten although it is populated.
changeFirstTimeState_Overwrite(slot, s, to, g) ==
    IF has(slot, to) THEN changeState(slot, s, to, g) ELSE s

changeFirstTimeState(slot, s, to, g) ==
    IF ~has(slot, s) /\ has(slot, to) THEN changeState(slot, s, to, g) ELSE s

changeEveryTimeRow(slot, s, v) == changeRow(slot, s, v)

\* Mutant: a populated destination keeps its value.
changeEveryTimeState_KeepFirst(slot, s, to, g) ==
    IF ~has(slot, s) /\ has(slot, to) THEN changeState(slot, s, to, g) ELSE s

changeEveryTimeState(slot, s, to, g) ==
    IF has(slot, to) THEN changeState(slot, s, to, g) ELSE s

\* Mutant: the comparison is the wrong way round.
changeIfLessRow_Swapped(slot, s, v) ==
    IF ~has(slot, s) \/ RowGreater(slot, v, s) THEN changeRow(slot, s, v) ELSE s

changeIfLessRow(slot, s, v) ==
    IF ~has(slot, s) \/ RowLess(slot, v, s) THEN changeRow(slot, s, v) ELSE s

changeIfLessState(slot, s, to, g) ==
    IF has(slot, to) /\ (~has(slot, s) \/ StateLess(slot, to, s))
    THEN changeState(slot, s, to, g)
    ELSE s

changeIfGreaterRow(slot, s, v) ==
    IF ~has(slot, s) \/ RowGreater(slot, v, s) THEN changeRow(slot, s, v) ELSE s

\* Mutant: the source is not compared with a populated destination.
changeIfGreaterState_NoCompare(slot, s, to, g) ==
    IF has(slot, to) /\ ~has(slot, s) THEN changeState(slot, s, to, g) ELSE s

changeIfGreaterState(slot, s, to, g) ==
    IF has(slot, to) /\ (~has(slot, s) \/ StateGreater(slot, to, s))
    THEN changeState(slot, s, to, g)
    ELSE s

\* What changeIfLess and changeIfGreater return: whether they changed the slot.
changeIfLessRowReturns(slot, s, v) == ~has(slot, s) \/ RowLess(slot, v, s)
changeIfLessStateReturns(slot, s, to) ==
    has(slot, to) /\ (~has(slot, s) \/ StateLess(slot, to, s))
changeIfGreaterRowReturns(slot, s, v) == ~has(slot, s) \/ RowGreater(slot, v, s)
changeIfGreaterStateReturns(slot, s, to) ==
    has(slot, to) /\ (~has(slot, s) \/ StateGreater(slot, to, s))

slotInsertResultInto(slot, s) ==
    CASE slot = "Fixed" -> FixedInsertResultInto(s)
      [] slot = "String" -> StringInsertResultInto(s)
      [] slot = "Generic" -> GenericInsertResultInto(s)

slotWrite(slot, s) ==
    CASE slot = "Fixed" -> FixedWrite(s)
      [] slot = "String" -> StringWrite(s)
      [] slot = "Generic" -> GenericWrite(s)

slotReadThrows(slot, buf) ==
    CASE slot = "Fixed" -> FixedReadThrows(buf)
      [] slot = "String" -> StringReadThrows(buf)
      [] slot = "Generic" -> GenericReadThrows(buf)

slotRead(slot, s, buf) ==
    CASE slot = "Fixed" -> FixedRead(s, buf)
      [] slot = "String" -> StringRead(s, buf)
      [] slot = "Generic" -> GenericRead(s, buf)

\* -------------------------------------------------------------------- policies

\* Mutant: a row equal to the stored value makes the state forget it saw a value.
OrNullChangeIfBetterRow_ForgetsFirst(slot, s, v) ==
    IF s.first_value
    THEN changeRow(slot, [s EXCEPT !.first_value = FALSE], v)
    ELSE IF ~isEqualToRow(slot, s, v)
         THEN [s EXCEPT !.is_null = TRUE]
         ELSE [s EXCEPT !.first_value = TRUE]

\* AggregateFunctionSingleValueOrNullData::changeIfBetter(column, row_num, arena)
OrNullChangeIfBetterRow(slot, s, v) ==
    IF s.first_value
    THEN changeRow(slot, [s EXCEPT !.first_value = FALSE], v)
    ELSE IF ~isEqualToRow(slot, s, v)
         THEN [s EXCEPT !.is_null = TRUE]
         ELSE s

\* AggregateFunctionSingleValueOrNullData::changeIfBetter(to, arena)
OrNullChangeIfBetterState(slot, s, to, g) ==
    IF s.first_value
    THEN changeState(slot, [s EXCEPT !.first_value = FALSE], to, g)
    ELSE IF ~isEqualToState(slot, s, to, g)
         THEN [s EXCEPT !.is_null = TRUE]
         ELSE s

\* Mutant: a conflict does not make the result null.
OrNullInsertResultInto_IgnoreConflict(slot, s) ==
    IF s.first_value THEN <<>> ELSE <<slotInsertResultInto(slot, s)>>

\* A null result is the empty sequence, a non-null result v is <<v>>.
OrNullInsertResultInto(slot, s) ==
    IF s.is_null \/ s.first_value THEN <<>> ELSE <<slotInsertResultInto(slot, s)>>

\* counter is a UInt64: ++, --, += and -= wrap modulo 2^64.  TLC's integers are
\* 32 bits wide, so CounterModulus stands in for 2^64: it is far above every
\* counter the bounds allow, and a decrement below zero still wraps to the top.
CounterModulus == 1073741824
WrapUInt64(n) == n % CounterModulus

\* Mutant: a different row replaces the value whatever the counter is.
AnyHeavyChangeIfBetterRow_NoVote(slot, s, v) ==
    IF isEqualToRow(slot, s, v)
    THEN [s EXCEPT !.counter = WrapUInt64(@ + 1)]
    ELSE [changeRow(slot, s, v) EXCEPT !.counter = 1]

\* AggregateFunctionAnyHeavyData::changeIfBetter(column, row_num, arena)
AnyHeavyChangeIfBetterRow(slot, s, v) ==
    IF isEqualToRow(slot, s, v)
    THEN [s EXCEPT !.counter = WrapUInt64(@ + 1)]
    ELSE IF s.counter = 0
         THEN [changeRow(slot, s, v) EXCEPT !.counter = WrapUInt64(@ + 1)]
         ELSE [s EXCEPT !.counter = WrapUInt64(@ - 1)]

\* Mutant: the source counter is subtracted without comparing the two counters.
AnyHeavyChangeIfBetterState_BlindSubtract(slot, s, to, g) ==
    IF isEqualToState(slot, s, to, g)
    THEN [s EXCEPT !.counter = WrapUInt64(@ + to.counter)]
    ELSE IF ~has(slot, s) /\ has(slot, to)
         THEN changeState(slot, s, to, g)
         ELSE [s EXCEPT !.counter = WrapUInt64(@ - to.counter)]

\* AggregateFunctionAnyHeavyData::changeIfBetter(to, arena)
AnyHeavyChangeIfBetterState(slot, s, to, g) ==
    IF isEqualToState(slot, s, to, g)
    THEN [s EXCEPT !.counter = WrapUInt64(@ + to.counter)]
    ELSE IF (~has(slot, s) /\ has(slot, to)) \/ s.counter < to.counter
         THEN changeState(slot, s, to, g)
         ELSE [s EXCEPT !.counter = WrapUInt64(@ - to.counter)]

changeIfBetterRow(policy, slot, s, v) ==
    CASE policy = "min" -> changeIfLessRow(slot, s, v)
      [] policy = "max" -> changeIfGreaterRow(slot, s, v)
      [] policy = "any" -> changeFirstTimeRow(slot, s, v)
      [] policy = "anyLast" -> changeEveryTimeRow(slot, s, v)
      [] policy = "anyHeavy" -> AnyHeavyChangeIfBetterRow(slot, s, v)
      [] policy = "singleValueOrNull" -> OrNullChangeIfBetterRow(slot, s, v)

changeIfBetterState(policy, slot, s, to, g) ==
    CASE policy = "min" -> changeIfLessState(slot, s, to, g)
      [] policy = "max" -> changeIfGreaterState(slot, s, to, g)
      [] policy = "any" -> changeFirstTimeState(slot, s, to, g)
      [] policy = "anyLast" -> changeEveryTimeState(slot, s, to, g)
      [] policy = "anyHeavy" -> AnyHeavyChangeIfBetterState(slot, s, to, g)
      [] policy = "singleValueOrNull" -> OrNullChangeIfBetterState(slot, s, to, g)

\* Data::insertResultInto of the policy's state type
insertResultInto(policy, slot, s) ==
    IF policy = "singleValueOrNull"
    THEN OrNullInsertResultInto(slot, s)
    ELSE slotInsertResultInto(slot, s)

\* Data::write: anyHeavy appends its counter, the other policies write the slot only.
write(policy, slot, s) ==
    IF policy = "anyHeavy"
    THEN slotWrite(slot, s) \o <<s.counter>>
    ELSE slotWrite(slot, s)

\* Data::read throws when the slot's read does, and for anyHeavy when no counter
\* follows the slot.
readThrows(policy, slot, buf) ==
    \/ slotReadThrows(slot, buf)
    \/ policy = "anyHeavy" /\ slotRead(slot, Fresh(slot), buf).rest = <<>>

\* Data::read: what it leaves in the state, up to the throw if it throws.
read(policy, slot, s, buf) ==
    LET r == slotRead(slot, s, buf)
    IN  IF policy = "anyHeavy" /\ ~slotReadThrows(slot, buf)
        THEN [r.s EXCEPT !.counter = IF r.rest # <<>> THEN r.rest[1] ELSE @]
        ELSE r.s

\* ----------------------------------------------------------------- the adapter

\* Mutant: only min is checked.
ConstructorThrows_OnlyMin(policy, comparable) == policy = "min" /\ ~comparable

\* The constructor throws ILLEGAL_TYPE_OF_ARGUMENT: the function is min or max and
\* the argument type is not comparable.
ConstructorThrows(policy, comparable) ==
    (policy = "min" \/ policy = "max") /\ ~comparable

is_any(policy) == policy = "any"

\* for (i = row_begin; i < row_end; ++i) if (pass[i]) { changeIfBetter(column, i);
\* if constexpr (is_any) break; }   Rows are numbered from 0, sequences from 1.
RECURSIVE BatchLoop(_, _, _, _, _, _, _)
BatchLoop(policy, slot, s, col, pass, i, row_end) ==
    IF i >= row_end THEN s
    ELSE IF pass[i + 1]
         THEN LET changed == changeIfBetterRow(policy, slot, s, col[i + 1])
              IN  IF is_any(policy) THEN changed
                  ELSE BatchLoop(policy, slot, changed, col, pass, i + 1, row_end)
         ELSE BatchLoop(policy, slot, s, col, pass, i + 1, row_end)

\* AggregateFunctionsSingleValue::addBatchSinglePlace
addBatchSinglePlace(policy, slot, s, row_begin, row_end, col, if_argument_pos, flags) ==
    IF is_any(policy) /\ has(slot, s) THEN s
    ELSE IF if_argument_pos >= 0
         THEN BatchLoop(policy, slot, s, col, [i \in DOMAIN col |-> flags[i] # 0],
                        row_begin, row_end)
         ELSE BatchLoop(policy, slot, s, col, [i \in DOMAIN col |-> TRUE],
                        row_begin, row_end)

\* Mutant: the null map is not consulted.
addBatchSinglePlaceNotNull_IgnoreNullMap(policy, slot, s, row_begin, row_end, col, null_map, if_argument_pos, flags) ==
    addBatchSinglePlace(policy, slot, s, row_begin, row_end, col, if_argument_pos, flags)

\* AggregateFunctionsSingleValue::addBatchSinglePlaceNotNull
addBatchSinglePlaceNotNull(policy, slot, s, row_begin, row_end, col, null_map, if_argument_pos, flags) ==
    IF is_any(policy) /\ has(slot, s) THEN s
    ELSE IF if_argument_pos >= 0
         THEN BatchLoop(policy, slot, s, col,
                        [i \in DOMAIN col |-> null_map[i] = 0 /\ flags[i] # 0],
                        row_begin, row_end)
         ELSE BatchLoop(policy, slot, s, col, [i \in DOMAIN col |-> null_map[i] = 0],
                        row_begin, row_end)

\* for (size_t i = 0; i < length; ++i) changeIfBetter(column, 0, arena);
RECURSIVE AnyHeavyAddManyDefaults(_, _, _, _)
AnyHeavyAddManyDefaults(slot, s, v, length) ==
    IF length = 0 THEN s
    ELSE AnyHeavyAddManyDefaults(slot, AnyHeavyChangeIfBetterRow(slot, s, v), v, length - 1)

\* Data::addManyDefaults; v is row 0 of the column.  Only anyHeavy reads length.
addManyDefaults(policy, slot, s, v, length) ==
    CASE policy = "min" -> changeIfLessRow(slot, s, v)
      [] policy = "max" -> changeIfGreaterRow(slot, s, v)
      [] policy = "any" -> changeFirstTimeRow(slot, s, v)
      [] policy = "anyLast" -> changeEveryTimeRow(slot, s, v)
      [] policy = "anyHeavy" -> AnyHeavyAddManyDefaults(slot, s, v, length)
      [] policy = "singleValueOrNull" -> OrNullChangeIfBetterRow(slot, s, v)

\* ------------------------------------------------------- compilation capability

\* Mutant: singleValueOrNull and anyHeavy take the flag from the slot as well.
is_compilable_FromSlot(policy, slot) == slot = "Fixed"

\* Data::is_compilable: true in SingleValueDataFixed, false in the two other slots;
\* min, max, any and anyLast take it from the slot, singleValueOrNull and anyHeavy
\* set it to false.
is_compilable(policy, slot) ==
    CASE policy \in {"min", "max", "any", "anyLast"} -> slot = "Fixed"
      [] policy = "singleValueOrNull" -> FALSE
      [] policy = "anyHeavy" -> FALSE

\* canBeNativeType(*argument_types[0]): the values of a FixedSlot are native signed
\* integers here.
canBeNativeType(slot) == slot = "Fixed"

\* AggregateFunctionsSingleValue::isCompilable
isCompilable(policy, slot) ==
    IF ~is_compilable(policy, slot) THEN FALSE ELSE canBeNativeType(slot)

\* compileCreate: memset of the state to zero, so has_value is false and value is 0.
compileCreate == [has_value |-> FALSE, value |-> 0]

getValueFromAggregateDataPtr(s) == s.value

compileChange(s, value_to_check) == [has_value |-> TRUE, value |-> value_to_check]

compileChangeMerge(dst, src) == compileChange(dst, getValueFromAggregateDataPtr(src))

compileChangeFirstTime(s, value_to_check) ==
    IF s.has_value THEN s ELSE compileChange(s, value_to_check)

compileChangeFirstTimeMerge(dst, src) ==
    IF ~dst.has_value /\ src.has_value THEN compileChangeMerge(dst, src) ELSE dst

compileChangeEveryTime(s, value_to_check) == compileChange(s, value_to_check)

compileChangeEveryTimeMerge(dst, src) ==
    IF src.has_value THEN compileChangeMerge(dst, src) ELSE dst

\* ICmpSLT / ICmpSGT: T is a signed integer type.
compileChangeComparison(is_less, s, value_to_check) ==
    LET value == getValueFromAggregateDataPtr(s)
        should_change_after_comparison ==
            IF is_less THEN value_to_check < value ELSE value_to_check > value
    IN  IF ~s.has_value \/ should_change_after_comparison
        THEN compileChange(s, value_to_check)
        ELSE s

\* Mutant: the source is not tested for a value.
compileChangeComparisonMerge_IgnoreHasSrc(is_less, dst, src) ==
    compileChangeComparison(is_less, dst, getValueFromAggregateDataPtr(src))

compileChangeComparisonMerge(is_less, dst, src) ==
    LET value_dst == getValueFromAggregateDataPtr(dst)
        value_src == getValueFromAggregateDataPtr(src)
        should_change_after_comparison ==
            IF is_less THEN value_src < value_dst ELSE value_src > value_dst
    IN  IF src.has_value /\ (~dst.has_value \/ should_change_after_comparison)
        THEN compileChangeMerge(dst, src)
        ELSE dst

\* Data::compileChangeIfBetter of the four compilable policies
compileChangeIfBetter(policy, s, value_to_check) ==
    CASE policy = "min" -> compileChangeComparison(TRUE, s, value_to_check)
      [] policy = "max" -> compileChangeComparison(FALSE, s, value_to_check)
      [] policy = "any" -> compileChangeFirstTime(s, value_to_check)
      [] policy = "anyLast" -> compileChangeEveryTime(s, value_to_check)

\* Data::compileChangeIfBetterMerge of the four compilable policies
compileChangeIfBetterMerge(policy, dst, src) ==
    CASE policy = "min" -> compileChangeComparisonMerge(TRUE, dst, src)
      [] policy = "max" -> compileChangeComparisonMerge(FALSE, dst, src)
      [] policy = "any" -> compileChangeFirstTimeMerge(dst, src)
      [] policy = "anyLast" -> compileChangeEveryTimeMerge(dst, src)

\* SingleValueDataFixed::compileGetResult: the value is loaded whatever has_value is.
compileGetResult(s) == getValueFromAggregateDataPtr(s)

\* ------------------------------------------------- detail::Selector (row selection)

\* size_t arithmetic wraps; SizeModulus stands for 2^64.
SizeModulus == 1073741824
WrapSize(n) == n % SizeModulus

\* A Selector holds either a Range [first, second) or an index list.
\* Selector(size_t begin, size_t end): nothing compares begin with end.
SelectorOfRange(begin, end) ==
    [holds |-> "Range", range |-> <<begin, end>>, selector |-> <<>>]
\* Selector()
SelectorDefault == SelectorOfRange(0, 0)

\* Selector::initializeFromSelector, the data of Selector(IColumn::Selector &&)
initializeFromSelector(sel) ==
    IF sel = <<>>
    THEN SelectorOfRange(0, 0)
    ELSE IF sel[Len(sel)] = WrapSize(sel[1] + Len(sel) - 1)
         THEN SelectorOfRange(sel[1], WrapSize(sel[1] + Len(sel)))
         ELSE [holds |-> "Selector", range |-> <<0, 0>>, selector |-> sel]

\* Selector::size
SelectorSize(s) ==
    IF s.holds = "Range"
    THEN WrapSize(s.range[2] - s.range[1])
    ELSE Len(s.selector)

\* Selector::operator[]: the chassert and the check before any index is computed
SelectorAtThrows_OffByOne(s, idx) == idx > SelectorSize(s)
SelectorAtThrows(s, idx) == idx >= SelectorSize(s)
\* Selector::operator[]: the index returned when the check passes
SelectorAt(s, idx) ==
    IF s.holds = "Range"
    THEN WrapSize(s.range[1] + idx)
    ELSE s.selector[idx + 1]

\* Selector::begin and Selector::end: the idx of the iterator returned
SelectorBegin(s) == 0
SelectorEnd(s) == SelectorSize(s)
\* Selector::Iterator::operator*
IteratorDerefThrows(s, idx) == idx >= SelectorSize(s)
IteratorDeref(s, idx) == SelectorAt(s, idx)
\* Selector::Iterator::operator++
IteratorIncrementThrows(s, idx) == idx >= SelectorSize(s)
IteratorIncrement(s, idx) == WrapSize(idx + 1)

\* Selector::split
SelectorSplitThrows(s, num_rows) == num_rows > SelectorSize(s)
SelectorSplit(s, num_rows) ==
    IF s.holds = "Range"
    THEN IF num_rows = 0
         THEN <<SelectorDefault, SelectorOfRange(s.range[1], s.range[2])>>
         ELSE IF num_rows = SelectorSize(s)
              THEN <<SelectorOfRange(s.range[1], s.range[2]), SelectorDefault>>
              ELSE <<SelectorOfRange(s.range[1], WrapSize(s.range[1] + num_rows)),
                     SelectorOfRange(WrapSize(s.range[1] + num_rows), s.range[2])>>
    ELSE <<initializeFromSelector(Take(s.selector, num_rows)),
           initializeFromSelector(Drop(s.selector, num_rows))>>

\* ------------------------------------------------------------- ScatteredBlock

\* A block is the sequence of its rows; the blocks given have the rows 1, 2, ...
BlockOf(n) == [i \in 1 .. n |-> i]

\* ScatteredBlock::createTrivialSelector
createTrivialSelector(size) == SelectorOfRange(0, WrapSize(size - 1))

\* ScatteredBlock::rows
selectedRows(sel) == SelectorSize(sel)

\* ScatteredBlock::wasScattered
wasScattered(blk, sel) == SelectorSize(sel) # Len(blk)

\* Some index of the selector lies past the last row of the block.
PastTheEnd(blk, sel) ==
    IF sel.holds = "Range"
    THEN /\ SelectorSize(sel) > 0
         /\ (sel.range[1] >= Len(blk) \/ SelectorSize(sel) > Len(blk) - sel.range[1])
    ELSE \E i \in DOMAIN sel.selector : sel.selector[i] >= Len(blk)

\* for (const auto idx : selector) c->insertFrom(*col, idx): the rows at the indices
\* the iteration from begin() to end() yields; read only when none is past the end.
Selected(blk, sel) ==
    [i \in 1 .. SelectorSize(sel) |-> blk[IteratorDeref(sel, i - 1) + 1]]

\* ScatteredBlock::filterBySelector does not return: it reserves selector.size() rows
\* and reads rows past the end of the columns.
filterBySelectorFails(blk, sel) == wasScattered(blk, sel) /\ PastTheEnd(blk, sel)
\* ScatteredBlock::filterBySelector: the block and the selector afterwards
filterBySelector(blk, sel) ==
    IF ~wasScattered(blk, sel)
    THEN [block |-> blk, selector |-> sel]
    ELSE [block |-> Selected(blk, sel),
          selector |-> createTrivialSelector(Len(Selected(blk, sel)))]

\* ScatteredBlock::cut before its SCOPE_EXIT: what this block is left with (1) and
\* the block returned (2).
cut(blk, sel, num_rows) ==
    IF num_rows >= selectedRows(sel)
    THEN <<[block |-> blk, selector |-> sel],
           [block |-> <<>>, selector |-> createTrivialSelector(0)]>>
    ELSE <<[block |-> blk, selector |-> SelectorSplit(sel, num_rows)[1]],
           [block |-> blk, selector |-> SelectorSplit(sel, num_rows)[2]]>>

\* The arguments of the calls: indices, and the index lists built from them.
Indices == 0..MaxIndex
IndexLists == SeqsUpTo(Indices, MaxSelLen)
\* Positions asked of a selector: up to one past the longest list.
Positions == 0..(MaxSelLen + 1)

\* -------------------------------------------------------- LibraryBridgeHelper

\* std::strlen(dictionary_check), the length of "dictionary="
DICTIONARY_CHECK_LENGTH == 11

\* What the ping request gives: an exception (ok is false), or a message of size
\* bytes whose bytes after the first DICTIONARY_CHECK_LENGTH are tail.
PingFailed == [ok |-> FALSE, size |-> 0, tail |-> ""]
PingMessage(size, tail) == [ok |-> TRUE, size |-> size, tail |-> tail]
PingResults ==
    {PingFailed}
        \cup {PingMessage(DICTIONARY_CHECK_LENGTH + 1, tail) : tail \in {"0", "1", "2", "x"}}
        \cup {PingMessage(DICTIONARY_CHECK_LENGTH, ""),
              PingMessage(DICTIONARY_CHECK_LENGTH + 2, "10")}

\* tryParse<UInt8>: whether the text is a number, and the number
tryParseUInt8(text) ==
    CASE text = "0" -> <<TRUE, 0>>
      [] text = "1" -> <<TRUE, 1>>
      [] text = "2" -> <<TRUE, 2>>
      [] text = "10" -> <<TRUE, 10>>
      [] OTHER -> <<FALSE, 0>>

\* checkBridgeIsRunning reaches initLibrary(false)
reinitializes(ping, initialized) ==
    /\ ping.ok
    /\ ping.size = DICTIONARY_CHECK_LENGTH + 1
    /\ tryParseUInt8(ping.tail) = <<TRUE, 0>>
    /\ initialized

\* Mutant: the outcome of the re-initialization is not looked at.
checkBridgeIsRunning_IgnoreReinit(ping, initialized, reinit) ==
    IF ~ping.ok THEN "false"
    ELSE IF ping.size # DICTIONARY_CHECK_LENGTH + 1 THEN "LOGICAL_ERROR"
    ELSE LET parsed == tryParseUInt8(ping.tail)
         IN  IF ~parsed[1] \/ (parsed[2] # 0 /\ parsed[2] # 1) THEN "LOGICAL_ERROR"
             ELSE IF parsed[2] # 0 /\ ~initialized THEN "LOGICAL_ERROR"
             ELSE "true"

\* LibraryBridgeHelper::checkBridgeIsRunning: "true", "false" or the error code of
\* the exception it throws.  reinit is what initLibrary(false) does when it is
\* called: it returns "true" or "false", or "throws".
checkBridgeIsRunning(ping, initialized, reinit) ==
    IF ~ping.ok THEN "false"
    ELSE IF ping.size # DICTIONARY_CHECK_LENGTH + 1 THEN "LOGICAL_ERROR"
    ELSE LET parsed == tryParseUInt8(ping.tail)
         IN  IF ~parsed[1] \/ (parsed[2] # 0 /\ parsed[2] # 1) THEN "LOGICAL_ERROR"
             ELSE IF parsed[2] # 0 /\ ~initialized THEN "LOGICAL_ERROR"
             ELSE IF parsed[2] = 0 /\ initialized
                  THEN IF reinit = "true" THEN "true" ELSE "false"
                  ELSE "true"

\* --------------------------------------------------------------- the machine

VARIABLES
    policy,     \* the policy the aggregator was instantiated with
    slot,       \* its slot variant
    st,         \* place -> aggregate state
    buf,        \* the bytes last written by serialize or received; <<>> if none
    rowsLeft,   \* rows that may still be added
    log,        \* history: the rows added so far, in the order of the calls
    hist,       \* history: place -> positions in log of the rows it incorporates,
                \*          a destination's rows before the rows of a merged source
    parts,      \* history: place -> number of partial states combined in it
    nested,     \* history: place -> a merged source was itself a merge result
    spent,      \* place -> the state was merged into another one and destroyed
    offwire,    \* history: place -> the state holds data read from buf, which the
                \*          log does not record
    wire,       \* history: what buf encodes
    wireLeft,   \* serialize, receive and deserialize calls that may still be made
    comparable, \* type->isComparable() of the argument type
    status,     \* "unconstructed", "ready", or the error code of the exception that
                \* ended the query
    library_initialized, \* LibraryBridgeHelper::library_initialized
    handler,    \* the library bridge holds a library handler for dictionary_id
    block,      \* the rows of the block of the ScatteredBlock under use
    selector,   \* the Selector under use, the selector of that ScatteredBlock
    it,         \* the idx of an Iterator over selector
    native,     \* place -> the state memory the compiled functions work on
    last        \* history: the last addBatch or addManyDefaults call, the state it
                \*          found and the rows it was to apply

vars == <<policy, slot, st, buf, rowsLeft, log, hist, parts, nested, spent, offwire,
          wire, wireLeft, comparable, status, library_initialized, handler, block,
          selector, it, native, last>>

\* The variables of the aggregate functions and of the bridge helper, which a
\* Selector or ScatteredBlock call leaves alone.
aggvars == <<policy, slot, st, buf, rowsLeft, log, hist, parts, nested, spent, offwire,
             wire, wireLeft, comparable, native, library_initialized, handler>>
\* The variables a call of the bridge helper leaves alone.
nonbridge == <<policy, slot, st, buf, rowsLeft, log, hist, parts, nested, spent, offwire,
               wire, wireLeft, comparable, native, block, selector, it>>

Places == DOMAIN st

NoWire == [kind |-> "none", str |-> <<>>]

NoCall == [op |-> "none"]

InitState(policies, slots, places, rows) ==
    /\ policy \in policies
    /\ slot \in slots
    /\ st = [p \in places |-> Fresh(slot)]
    /\ buf = <<>>
    /\ rowsLeft = rows
    /\ log = <<>>
    /\ hist = [p \in places |-> <<>>]
    /\ parts = [p \in places |-> 1]
    /\ nested = [p \in places |-> FALSE]
    /\ spent = [p \in places |-> FALSE]
    /\ offwire = [p \in places |-> FALSE]
    /\ wire = NoWire
    /\ wireLeft = MaxWireOps
    /\ native = [p \in places |-> compileCreate]
    /\ library_initialized = FALSE
    /\ handler = FALSE
    /\ block = <<>>
    /\ selector = SelectorDefault
    /\ it = SelectorBegin(selector)
    /\ last = NoCall

\* A constructed aggregator over a comparable type, with its states created.
InitWith(policies, slots, places, rows) ==
    /\ InitState(policies, slots, places, rows)
    /\ comparable = TRUE
    /\ status = "ready"

\* AggregateFunctionsSingleValue::AggregateFunctionsSingleValue
Construct ==
    /\ status = "unconstructed"
    /\ status' = IF ConstructorThrows(policy, comparable)
                 THEN "ILLEGAL_TYPE_OF_ARGUMENT"
                 ELSE "ready"
    /\ UNCHANGED <<library_initialized, handler, block, selector, it, policy, slot, native, st, buf, rowsLeft, log, hist, parts, nested, spent,
                   offwire, wire, wireLeft, comparable, last>>

\* The framework creates a state of the constructed aggregator in a new place.
Create ==
    /\ status = "ready"
    /\ Len(st) < MaxCtorPlaces
    /\ st' = Append(st, Fresh(slot))
    /\ native' = Append(native, compileCreate)
    /\ hist' = Append(hist, <<>>)
    /\ parts' = Append(parts, 1)
    /\ nested' = Append(nested, FALSE)
    /\ spent' = Append(spent, FALSE)
    /\ offwire' = Append(offwire, FALSE)
    /\ last' = NoCall
    /\ UNCHANGED <<library_initialized, handler, block, selector, it, policy, slot, buf, rowsLeft, log, wire, wireLeft, comparable, status>>

\* AggregateFunctionsSingleValue::add
AddRow(p, v) ==
    /\ status = "ready"
    /\ rowsLeft > 0
    /\ ~spent[p]
    /\ st' = [st EXCEPT ![p] = changeIfBetterRow(policy, slot, st[p], v)]
    /\ rowsLeft' = rowsLeft - 1
    /\ log' = Append(log, v)
    /\ hist' = [hist EXCEPT ![p] = Append(@, Len(log) + 1)]
    /\ last' = NoCall
    /\ UNCHANGED <<library_initialized, handler, block, selector, it, policy, slot, native, buf, parts, nested, spent, offwire, wire, wireLeft, comparable, status>>

\* AggregateFunctionsSingleValue::merge; g is what an indeterminate value of the
\* source reads as.  The source is left as it is; the framework destroys it after
\* the merge, so it takes no further part.
Merge(dst, src, g) ==
    /\ status = "ready"
    /\ dst # src
    /\ ~spent[dst] /\ ~spent[src]
    /\ st' = [st EXCEPT ![dst] = changeIfBetterState(policy, slot, st[dst], st[src], g)]
    /\ hist' = [hist EXCEPT ![dst] = @ \o hist[src]]
    /\ parts' = [parts EXCEPT ![dst] = @ + parts[src]]
    /\ nested' = [nested EXCEPT ![dst] = @ \/ parts[src] > 1]
    /\ spent' = [spent EXCEPT ![src] = TRUE]
    /\ offwire' = [offwire EXCEPT ![dst] = @ \/ offwire[src]]
    /\ last' = NoCall
    /\ UNCHANGED <<library_initialized, handler, block, selector, it, policy, slot, native, buf, rowsLeft, log, wire, wireLeft, comparable, status>>

\* AggregateFunctionsSingleValue::serialize
Serialize(p) ==
    /\ status = "ready"
    /\ ~spent[p]
    /\ wireLeft > 0
    /\ buf' = write(policy, slot, st[p])
    /\ wire' = [kind |-> "state", str |-> <<>>]
    /\ wireLeft' = wireLeft - 1
    /\ last' = NoCall
    /\ UNCHANGED <<library_initialized, handler, block, selector, it, policy, slot, native, st, rowsLeft, log, hist, parts, nested, spent, offwire, comparable, status>>

\* A string state written by an earlier release: "old" counts the terminating zero
\* in the length and sends it, "new" sends the bytes of the string alone.
LegacyEncoding(kind, str) ==
    IF kind = "old" THEN <<Len(str) + 1>> \o str \o <<0>> ELSE <<Len(str)>> \o str

ReceiveLegacy(kind, str, c) ==
    /\ status = "ready"
    /\ slot = "String"
    /\ wireLeft > 0
    /\ buf' = IF policy = "anyHeavy"
              THEN LegacyEncoding(kind, str) \o <<c>>
              ELSE LegacyEncoding(kind, str)
    /\ wire' = [kind |-> kind, str |-> str]
    /\ wireLeft' = wireLeft - 1
    /\ last' = NoCall
    /\ UNCHANGED <<library_initialized, handler, block, selector, it, policy, slot, native, st, rowsLeft, log, hist, parts, nested, spent, offwire, comparable, status>>

\* AggregateFunctionsSingleValue::deserialize
\* Bytes arrive that no writer of this code produced: any stored length, negative
\* ones included, followed by bytes that may be fewer than the length announces.
ReceiveCorrupt(rhs_size, bytes) ==
    /\ status = "ready"
    /\ slot = "String"
    /\ wireLeft > 0
    /\ buf' = <<rhs_size>> \o bytes
    /\ wire' = [kind |-> "corrupt", str |-> bytes]
    /\ wireLeft' = wireLeft - 1
    /\ last' = NoCall
    /\ UNCHANGED <<library_initialized, handler, block, selector, it, policy, slot, native, st, rowsLeft, log, hist, parts, nested, spent, offwire,
                   comparable, status>>

\* A read that throws ends the query with CANNOT_READ_ALL_DATA.
Deserialize(p) ==
    /\ status = "ready"
    /\ buf # <<>>
    /\ ~spent[p]
    /\ wireLeft > 0
    /\ st' = [st EXCEPT ![p] = read(policy, slot, st[p], buf)]
    /\ status' = IF readThrows(policy, slot, buf) THEN "CANNOT_READ_ALL_DATA" ELSE status
    /\ offwire' = [offwire EXCEPT ![p] = TRUE]
    /\ wireLeft' = wireLeft - 1
    /\ last' = [op |-> "deserialize", place |-> p, before |-> st[p], rows |-> <<>>,
                outside |-> FALSE, filtered |-> FALSE, nulls |-> FALSE]
    /\ UNCHANGED <<library_initialized, handler, block, selector, it, policy, slot, native, buf, rowsLeft, log, hist, parts, nested, spent, wire,
                   comparable>>

\* The rows of [row_begin, row_end) whose filter flag is non-zero and whose null-map
\* entry is zero, as positions of the column.
PassingRows(col, row_begin, row_end, not_null, null_map, if_argument_pos, flags) ==
    {i \in (row_begin + 1) .. row_end :
        /\ if_argument_pos >= 0 => flags[i] # 0
        /\ not_null => null_map[i] = 0}

\* AggregateFunctionsSingleValue::addBatchSinglePlace, or addBatchSinglePlaceNotNull
\* when the column has a null map.  The log gets the rows that pass.
AddBatch(p, col, row_begin, row_end, not_null, null_map, if_argument_pos, flags) ==
    LET passing == PassingRows(col, row_begin, row_end, not_null, null_map,
                               if_argument_pos, flags)
        idx == SortedSeq(passing)
        rows == [k \in 1 .. Len(idx) |-> col[idx[k]]]
    IN  /\ status = "ready"
        /\ ~spent[p]
        /\ rowsLeft > 0 /\ Len(col) <= rowsLeft
        /\ st' = [st EXCEPT ![p] =
                    IF not_null
                    THEN addBatchSinglePlaceNotNull(policy, slot, @, row_begin, row_end, col,
                                                    null_map, if_argument_pos, flags)
                    ELSE addBatchSinglePlace(policy, slot, @, row_begin, row_end, col,
                                             if_argument_pos, flags)]
        /\ rowsLeft' = rowsLeft - (IF col = <<>> THEN 1 ELSE Len(col))
        /\ log' = log \o rows
        /\ hist' = [hist EXCEPT ![p] = @ \o [k \in 1 .. Len(rows) |-> Len(log) + k]]
        /\ last' = [op |-> "addBatch", place |-> p, before |-> st[p], rows |-> rows,
                    outside |-> row_begin > 0 \/ row_end < Len(col),
                    filtered |-> \E i \in (row_begin + 1) .. row_end :
                                    if_argument_pos >= 0 /\ flags[i] = 0,
                    nulls |-> \E i \in (row_begin + 1) .. row_end :
                                    not_null /\ null_map[i] # 0]
        /\ UNCHANGED <<library_initialized, handler, block, selector, it, policy, slot, native, buf, parts, nested, spent, offwire, wire, wireLeft,
                       comparable, status>>

\* AggregateFunctionsSingleValue::addManyDefaults for a run of length default rows;
\* v is row 0 of the column.  A run of length 0 under a policy that ignores the
\* length leaves data in the state that the log does not record.
AddManyDefaults(p, v, length) ==
    /\ status = "ready"
    /\ ~spent[p]
    /\ rowsLeft > 0 /\ length <= rowsLeft
    /\ st' = [st EXCEPT ![p] = addManyDefaults(policy, slot, @, v, length)]
    /\ rowsLeft' = rowsLeft - (IF length = 0 THEN 1 ELSE length)
    /\ log' = log \o [k \in 1 .. length |-> v]
    /\ hist' = [hist EXCEPT ![p] = @ \o [k \in 1 .. length |-> Len(log) + k]]
    /\ offwire' = [offwire EXCEPT ![p] = @ \/ (length = 0 /\ policy # "anyHeavy")]
    /\ last' = [op |-> "addManyDefaults", place |-> p, before |-> st[p],
                rows |-> [k \in 1 .. length |-> v],
                outside |-> FALSE, filtered |-> FALSE, nulls |-> FALSE]
    /\ UNCHANGED <<library_initialized, handler, block, selector, it, policy, slot, native, buf, parts, nested, spent, wire, wireLeft,
                   comparable, status>>

\* AggregateFunctionsSingleValue::compileAdd; the code it emits runs on the native
\* memory of the place, the interpreted add on the state of the place.
CompiledAdd(p, v) ==
    /\ status = "ready"
    /\ rowsLeft > 0
    /\ ~spent[p]
    /\ IF is_compilable(policy, slot)
       THEN /\ native' = [native EXCEPT ![p] = compileChangeIfBetter(policy, @, v)]
            /\ st' = [st EXCEPT ![p] = changeIfBetterRow(policy, slot, @, v)]
            /\ log' = Append(log, v)
            /\ hist' = [hist EXCEPT ![p] = Append(@, Len(log) + 1)]
            /\ UNCHANGED status
       ELSE /\ status' = "NOT_IMPLEMENTED"
            /\ UNCHANGED <<native, st, log, hist>>
    /\ rowsLeft' = rowsLeft - 1
    /\ last' = [op |-> "compileAdd", place |-> p]
    /\ UNCHANGED <<library_initialized, handler, block, selector, it, policy, slot, buf, parts, nested, spent, offwire, wire, wireLeft,
                   comparable>>

\* AggregateFunctionsSingleValue::compileMerge, beside the interpreted merge.
CompiledMerge(dst, src, g) ==
    /\ status = "ready"
    /\ dst # src
    /\ ~spent[dst] /\ ~spent[src]
    /\ IF is_compilable(policy, slot)
       THEN /\ native' = [native EXCEPT ![dst] =
                            compileChangeIfBetterMerge(policy, @, native[src])]
            /\ st' = [st EXCEPT ![dst] =
                        changeIfBetterState(policy, slot, @, st[src], g)]
            /\ hist' = [hist EXCEPT ![dst] = @ \o hist[src]]
            /\ parts' = [parts EXCEPT ![dst] = @ + parts[src]]
            /\ nested' = [nested EXCEPT ![dst] = @ \/ parts[src] > 1]
            /\ spent' = [spent EXCEPT ![src] = TRUE]
            /\ UNCHANGED status
       ELSE /\ status' = "NOT_IMPLEMENTED"
            /\ UNCHANGED <<native, st, hist, parts, nested, spent>>
    /\ last' = [op |-> "compileMerge", place |-> dst]
    /\ UNCHANGED <<library_initialized, handler, block, selector, it, policy, slot, buf, rowsLeft, log, offwire, wire, wireLeft, comparable>>

\* AggregateFunctionsSingleValue::compileGetResult; the result is kept in last.
CompiledGetResult(p) ==
    /\ status = "ready"
    /\ ~spent[p]
    /\ IF is_compilable(policy, slot)
       THEN /\ last' = [op |-> "compileGetResult", place |-> p,
                        result |-> compileGetResult(native[p])]
            /\ UNCHANGED status
       ELSE /\ last' = [op |-> "compileGetResult", place |-> p]
            /\ status' = "NOT_IMPLEMENTED"
    /\ UNCHANGED <<library_initialized, handler, block, selector, it, policy, slot, st, native, buf, rowsLeft, log, hist, parts, nested,
                   spent, offwire, wire, wireLeft, comparable>>

\* AggregateFunctionsSingleValue::add of a row whose string has n bytes, under anyLast:
\* changeIfBetter is changeEveryTime, which is change(column, row_num, arena).  The
\* log gets the tracked bytes of the row.
AddSizedRow(p, n) ==
    /\ status = "ready"
    /\ slot = "String" /\ policy = "anyLast"
    /\ rowsLeft > 0
    /\ ~spent[p]
    /\ st' = [st EXCEPT ![p] = StringChangeImpl(@, SizedRef(n))]
    /\ rowsLeft' = rowsLeft - 1
    /\ log' = Append(log, SizedRef(n).data)
    /\ hist' = [hist EXCEPT ![p] = Append(@, Len(log) + 1)]
    /\ last' = [op |-> "addSized", place |-> p, before |-> st[p], size |-> n]
    /\ UNCHANGED <<library_initialized, handler, block, selector, it, policy, slot, native, buf, parts, nested, spent, offwire, wire, wireLeft,
                   comparable, status>>

\* Selector(size_t begin, size_t end)
NewRange(begin, end) ==
    /\ status = "ready"
    /\ selector' = SelectorOfRange(begin, end)
    /\ it' = SelectorBegin(selector')
    /\ last' = [op |-> "Selector"]
    /\ UNCHANGED <<aggvars, block, status>>

\* Selector(IColumn::Selector && selector_)
NewFromList(sel) ==
    /\ status = "ready"
    /\ selector' = initializeFromSelector(sel)
    /\ it' = SelectorBegin(selector')
    /\ last' = [op |-> "Selector", list |-> sel]
    /\ UNCHANGED <<aggvars, block, status>>

\* Selector::size; the result is kept in last.
Size ==
    /\ status = "ready"
    /\ last' = [op |-> "size", result |-> SelectorSize(selector)]
    /\ UNCHANGED <<aggvars, block, status, selector, it>>

\* Selector::operator[]; the result is kept in last.
At(idx) ==
    /\ status = "ready"
    /\ IF SelectorAtThrows(selector, idx)
       THEN /\ status' = "LOGICAL_ERROR"
            /\ last' = [op |-> "operator[]", idx |-> idx, threw |-> TRUE]
       ELSE /\ last' = [op |-> "operator[]", idx |-> idx, threw |-> FALSE,
                        result |-> SelectorAt(selector, idx)]
            /\ UNCHANGED status
    /\ UNCHANGED <<aggvars, block, selector, it>>

\* Selector::begin or Selector::end: the iterator is replaced.
NewIterator(at_end) ==
    /\ status = "ready"
    /\ it' = IF at_end THEN SelectorEnd(selector) ELSE SelectorBegin(selector)
    /\ last' = [op |-> IF at_end THEN "end" ELSE "begin"]
    /\ UNCHANGED <<aggvars, block, status, selector>>

\* Selector::Iterator::operator*; the result is kept in last.
Deref ==
    /\ status = "ready"
    /\ IF IteratorDerefThrows(selector, it)
       THEN /\ status' = "LOGICAL_ERROR"
            /\ last' = [op |-> "operator*", idx |-> it, threw |-> TRUE]
       ELSE /\ last' = [op |-> "operator*", idx |-> it, threw |-> FALSE,
                        result |-> IteratorDeref(selector, it)]
            /\ UNCHANGED status
    /\ UNCHANGED <<aggvars, block, selector, it>>

\* Selector::Iterator::operator++; at most MaxSelLen + 1 steps are followed.
Increment ==
    /\ status = "ready"
    /\ it <= MaxSelLen
    /\ IF IteratorIncrementThrows(selector, it)
       THEN /\ status' = "LOGICAL_ERROR"
            /\ last' = [op |-> "operator++", idx |-> it, threw |-> TRUE]
            /\ UNCHANGED it
       ELSE /\ it' = IteratorIncrement(selector, it)
            /\ last' = [op |-> "operator++", idx |-> it, threw |-> FALSE]
            /\ UNCHANGED status
    /\ UNCHANGED <<aggvars, block, selector>>

\* Selector::split; the caller goes on with the first or the second part.  Ranges
\* that begin beyond MaxIndex are not split further.
Split(num_rows, keep) ==
    /\ status = "ready"
    /\ selector.range[1] <= MaxIndex
    /\ IF SelectorSplitThrows(selector, num_rows)
       THEN /\ status' = "LOGICAL_ERROR"
            /\ last' = [op |-> "split", before |-> selector, num_rows |-> num_rows,
                        threw |-> TRUE]
            /\ UNCHANGED <<selector, it>>
       ELSE /\ selector' = SelectorSplit(selector, num_rows)[keep]
            /\ it' = SelectorBegin(selector')
            /\ last' = [op |-> "split", before |-> selector, num_rows |-> num_rows,
                        threw |-> FALSE, parts |-> SelectorSplit(selector, num_rows)]
            /\ UNCHANGED status
    /\ UNCHANGED <<aggvars, block>>

\* ScatteredBlock(Block block_)
NewBlock(n) ==
    /\ status = "ready"
    /\ block' = BlockOf(n)
    /\ selector' = createTrivialSelector(Len(block'))
    /\ it' = SelectorBegin(selector')
    /\ last' = [op |-> "ScatteredBlock"]
    /\ UNCHANGED <<aggvars, status>>

\* ScatteredBlock(Block block_, IColumn::Selector && selector_); the caller gives
\* indices of rows of the block.
NewBlockWithList(n, sel) ==
    /\ status = "ready"
    /\ \A i \in DOMAIN sel : sel[i] < n
    /\ block' = BlockOf(n)
    /\ selector' = initializeFromSelector(sel)
    /\ it' = SelectorBegin(selector')
    /\ last' = [op |-> "ScatteredBlock", list |-> sel]
    /\ UNCHANGED <<aggvars, status>>

\* ScatteredBlock::filterBySelector
FilterBySelector ==
    /\ status = "ready"
    /\ last' = [op |-> "filterBySelector", before |-> [block |-> block, selector |-> selector]]
    /\ IF filterBySelectorFails(block, selector)
       THEN /\ status' = "crashed"
            /\ UNCHANGED <<block, selector, it>>
       ELSE /\ block' = filterBySelector(block, selector).block
            /\ selector' = filterBySelector(block, selector).selector
            /\ it' = SelectorBegin(selector')
            /\ UNCHANGED status
    /\ UNCHANGED aggvars

\* ScatteredBlock::cut; the block returned is kept in last.  filterBySelector runs on
\* this block when the scope is left.
Cut(num_rows) ==
    /\ status = "ready"
    /\ LET parts_ == cut(block, selector, num_rows)
       IN  /\ last' = [op |-> "cut", num_rows |-> num_rows,
                        before |-> [block |-> block, selector |-> selector],
                        returned |-> parts_[2]]
           /\ IF filterBySelectorFails(parts_[1].block, parts_[1].selector)
              THEN /\ status' = "crashed"
                   /\ block' = parts_[1].block
                   /\ selector' = parts_[1].selector
                   /\ UNCHANGED it
              ELSE /\ block' = filterBySelector(parts_[1].block, parts_[1].selector).block
                   /\ selector' = filterBySelector(parts_[1].block, parts_[1].selector).selector
                   /\ it' = SelectorBegin(selector')
                   /\ UNCHANGED status
    /\ UNCHANGED aggvars

\* history: the number of calls made on the bridge helper and its bridge
BridgeCalls == IF "seq" \in DOMAIN last THEN last.seq ELSE 0

\* The bridge answers a ping with "dictionary=1" exactly when it holds a handler for
\* the dictionary id; initLibrary(false) is called, with outcome reinit, exactly
\* when checkBridgeIsRunning reaches it.
Answers(ping, reinit) ==
    /\ (ping.ok /\ ping.size = DICTIONARY_CHECK_LENGTH + 1 /\ ping.tail \in {"0", "1"}) =>
           (ping.tail = "1" <=> handler)
    /\ reinitializes(ping, library_initialized) <=> reinit # "none"

\* LibraryBridgeHelper::checkBridgeIsRunning.  The bridge holds a handler after a
\* lib_new request that it answered with true.
CheckBridgeIsRunning(ping, reinit) ==
    /\ status = "ready"
    /\ BridgeCalls < MaxBridgeCalls
    /\ Answers(ping, reinit)
    /\ handler' = (handler \/ reinit = "true")
    /\ status' = IF checkBridgeIsRunning(ping, library_initialized, reinit) = "LOGICAL_ERROR"
                 THEN "LOGICAL_ERROR"
                 ELSE status
    /\ last' = [op |-> "checkBridgeIsRunning", seq |-> BridgeCalls + 1,
                ping |-> ping, reinit |-> reinit,
                returned |-> checkBridgeIsRunning(ping, library_initialized, reinit)]
    /\ UNCHANGED <<nonbridge, library_initialized>>

\* LibraryBridgeHelper::removeLibrary: the delete request is sent when
\* checkBridgeIsRunning returns true; del is what the bridge answers, after dropping
\* the handler when it answers true, or "throws".
RemoveLibrary(ping, reinit, del) ==
    /\ status = "ready"
    /\ BridgeCalls < MaxBridgeCalls
    /\ Answers(ping, reinit)
    /\ LET running == checkBridgeIsRunning(ping, library_initialized, reinit)
       IN  /\ (running = "true") <=> (del # "none")
           /\ handler' = ((handler \/ reinit = "true") /\ del # "true")
           /\ status' = IF running = "LOGICAL_ERROR" THEN "LOGICAL_ERROR"
                        ELSE IF del = "throws" THEN "RECEIVED_ERROR_FROM_REMOTE_IO_SERVER"
                        ELSE status
           /\ last' = [op |-> "removeLibrary", seq |-> BridgeCalls + 1,
                       ping |-> ping, reinit |-> reinit, running |-> running,
                       returned |-> IF running = "true" THEN del
                                    ELSE IF running = "false" THEN "true"
                                    ELSE running]
    /\ UNCHANGED <<nonbridge, library_initialized>>

\* LibraryBridgeHelper::initLibrary(true), called by the owner of the helper; the
\* owner is the one who assigns library_initialized.
InitLibrary(res, kept) ==
    /\ status = "ready"
    /\ BridgeCalls < MaxBridgeCalls
    /\ handler' = (handler \/ res)
    /\ library_initialized' = kept
    /\ last' = [op |-> "initLibrary", seq |-> BridgeCalls + 1, returned |-> res]
    /\ UNCHANGED <<nonbridge, status>>

\* The bridge crashes or restarts while the server does not: its handlers are gone.
BridgeRestart ==
    /\ status = "ready"
    /\ BridgeCalls < MaxBridgeCalls
    /\ handler' = FALSE
    /\ last' = [op |-> "restart", seq |-> BridgeCalls + 1]
    /\ UNCHANGED <<nonbridge, status, library_initialized>>

AddRowStep == \E p \in Places : \E v \in ValuesOf(slot) : AddRow(p, v)
MergeStep == \E dst \in Places, src \in Places : \E g \in FixedValues : Merge(dst, src, g)
SerializeStep == \E p \in Places : Serialize(p)
ReceiveLegacyStep ==
    \E kind \in {"old", "new"}, str \in StringValues, c \in 0 .. 1 : ReceiveLegacy(kind, str, c)
DeserializeStep == \E p \in Places : Deserialize(p)
ReceiveCorruptStep ==
    \E rhs_size \in StoredLengths, bytes \in ShortStrings : ReceiveCorrupt(rhs_size, bytes)
CompiledAddStep == \E p \in Places : \E v \in ValuesOf(slot) : CompiledAdd(p, v)
CompiledMergeStep ==
    \E dst \in Places, src \in Places : \E g \in FixedValues : CompiledMerge(dst, src, g)
CompiledGetResultStep == \E p \in Places : CompiledGetResult(p)
AddSizedRowStep == \E p \in Places, n \in SizedLengths : AddSizedRow(p, n)
AddBatchStep ==
    \E p \in Places, col \in SeqsUpTo(ColumnValues(slot), rowsLeft) :
        \E row_begin \in 0 .. Len(col), row_end \in 0 .. Len(col),
           not_null \in BOOLEAN, if_argument_pos \in {-1, 1} :
            \E null_map \in (IF not_null THEN [DOMAIN col -> FlagValues] ELSE {<<>>}),
               flags \in (IF if_argument_pos >= 0 THEN [DOMAIN col -> FlagValues]
                          ELSE {<<>>}) :
                /\ row_begin <= row_end
                /\ AddBatch(p, col, row_begin, row_end, not_null, null_map,
                            if_argument_pos, flags)
AddManyDefaultsStep ==
    \E p \in Places, v \in ColumnValues(slot), length \in 0 .. rowsLeft :
        AddManyDefaults(p, v, length)

\* Partial aggregation of fixed-width values: rows and merges.
InitFixed == InitWith(Policies, {"Fixed"}, 1 .. 3, MaxRows)
NextAgg == AddRowStep \/ MergeStep
Spec == InitFixed /\ [][NextAgg]_vars

\* Rows of strings fed to one Min or Max state.
InitRows == InitWith({"min", "max"}, {"String"}, {1}, MaxRows)
NextRows == AddRowStep
SpecRows == InitRows /\ [][NextRows]_vars

\* Partial aggregation over every slot variant under every policy.
InitSlots == InitWith(Policies, Slots, 1 .. 2, MaxWireRows)
SpecSlots == InitSlots /\ [][NextAgg]_vars

\* Rows, merges and the wire.
InitWire == InitWith(Policies, {"Fixed", "String"}, 1 .. 2, MaxWireRows)
NextWire == AddRowStep \/ MergeStep \/ SerializeStep \/ DeserializeStep
SpecWire == InitWire /\ [][NextWire]_vars

\* A string state that receives rows and states written by earlier releases.
InitLegacy == InitWith({"anyLast", "anyHeavy"}, {"String"}, {1}, MaxWireRows)
NextLegacy == AddRowStep \/ ReceiveLegacyStep \/ DeserializeStep
SpecLegacy == InitLegacy /\ [][NextLegacy]_vars

\* Rows, batches of rows and runs of default rows fed to one state.
InitBatch == InitWith(Policies, Slots, {1}, MaxBatchRows)
NextBatch == AddRowStep \/ AddBatchStep \/ AddManyDefaultsStep
SpecBatch == InitBatch /\ [][NextBatch]_vars

\* Every way of adding rows to two states, and merges.
InitMix == InitWith(Policies, Slots, 1 .. 2, MaxMixRows)
NextMix == AddRowStep \/ AddBatchStep \/ AddManyDefaultsStep \/ MergeStep
SpecMix == InitMix /\ [][NextMix]_vars

\* Construction over a type that may not be comparable, then states and rows.
InitCtor ==
    /\ InitState(Policies, {"Generic"}, {}, MaxWireRows)
    /\ comparable \in BOOLEAN
    /\ status = "unconstructed"
NextCtor == Construct \/ Create \/ AddRowStep
SpecCtor == InitCtor /\ [][NextCtor]_vars

\* A string state that receives rows and bytes with an arbitrary stored length.
InitCorrupt == InitWith({"min", "anyLast"}, {"String"}, {1}, MaxWireRows)
NextCorrupt == AddRowStep \/ ReceiveCorruptStep \/ DeserializeStep
SpecCorrupt == InitCorrupt /\ [][NextCorrupt]_vars

\* The compiled transitions run beside the interpreted ones on zero-filled memory.
InitJit == InitWith(Policies, Slots, 1 .. 3, MaxRows)
NextJit == CompiledAddStep \/ CompiledMergeStep \/ CompiledGetResultStep
SpecJit == InitJit /\ [][NextJit]_vars

\* One AnyLast string state fed short rows and rows of every interesting length.
InitSizes == InitWith({"anyLast"}, {"String"}, {1}, MaxRows)
NextSizes == AddRowStep \/ AddSizedRowStep
SpecSizes == InitSizes /\ [][NextSizes]_vars

\* One Selector, built from a range or an index list, asked its size and its
\* indices, iterated and split.
InitSelector == InitWith({"any"}, {"Fixed"}, {}, 0)
NextSelector ==
    \/ \E begin \in Indices, end \in Indices : NewRange(begin, end)
    \/ \E sel \in IndexLists : NewFromList(sel)
    \/ Size
    \/ \E idx \in Positions : At(idx)
    \/ \E at_end \in BOOLEAN : NewIterator(at_end)
    \/ Deref
    \/ Increment
    \/ \E num_rows \in Positions, keep \in 1..2 : Split(num_rows, keep)
SpecSelector == InitSelector /\ [][NextSelector]_vars

\* One ScatteredBlock, built from a block with or without an index list, filtered
\* by its selector and cut.
NextBlock ==
    \/ \E n \in 0 .. MaxBlockRows : NewBlock(n)
    \/ \E n \in 0 .. MaxBlockRows, sel \in IndexLists : NewBlockWithList(n, sel)
    \/ FilterBySelector
    \/ \E num_rows \in 0 .. (MaxBlockRows + 1) : Cut(num_rows)
SpecBlock == InitSelector /\ [][NextBlock]_vars

\* One LibraryBridgeHelper and its bridge.
NextBridge ==
    \/ \E ping \in PingResults, reinit \in {"none", "true", "false", "throws"} :
          CheckBridgeIsRunning(ping, reinit)
    \/ \E ping \in PingResults, reinit \in {"none", "true", "false", "throws"},
          del \in {"none", "true", "false", "throws"} : RemoveLibrary(ping, reinit, del)
    \/ \E res \in BOOLEAN, kept \in BOOLEAN : InitLibrary(res, kept)
    \/ BridgeRestart
SpecBridge == InitSelector /\ [][NextBridge]_vars

\* One AnyHeavy state fed a longer stream of rows.
InitHeavy == InitWith({"anyHeavy"}, {"Fixed"}, {1}, MaxHeavyRows)
SpecHeavy == InitHeavy /\ [][NextRows]_vars

\* ------------------------------------------------------- reference notions

\* The rows a place incorporates, in the order they were added.
Whole(p) ==
    LET idx == SortedSeq(Range(hist[p]))
    IN  [i \in 1 .. Len(idx) |-> log[idx[i]]]

\* The values a place incorporates.
ValuesIn(p) == {log[i] : i \in Range(hist[p])}

Ascending(h) == \A i \in 1 .. Len(h) - 1 : h[i] < h[i + 1]

\* One state fed the rows one by one.
RECURSIVE Aggregate(_, _, _, _)
Aggregate(pol, sl, s, rows) ==
    IF rows = <<>> THEN s
    ELSE Aggregate(pol, sl, changeIfBetterRow(pol, sl, s, Head(rows)), Tail(rows))

AggregateWhole(p) == Aggregate(policy, slot, Fresh(slot), Whole(p))

Emit(s) == insertResultInto(policy, slot, s)

MinOf(S) == CHOOSE x \in S : \A y \in S : x <= y
MaxOf(S) == CHOOSE x \in S : \A y \in S : x >= y

LexMinOf(S) == CHOOSE x \in S : \A y \in S : x = y \/ LexLess(x, y)
LexMaxOf(S) == CHOOSE x \in S : \A y \in S : x = y \/ LexLess(y, x)

\* ------------------------------------------------------------------- claims

\* C1: a Min (Max) state over a FixedSlot that was only fed rows emits the minimum
\* (maximum) of the rows, and the type default 0 when no row was added.
C1_MinMaxOfRows ==
    (slot = "Fixed" /\ policy \in {"min", "max"}) =>
        \A p \in Places :
            parts[p] = 1 =>
                Emit(st[p]) =
                    IF hist[p] = <<>> THEN 0
                    ELSE IF policy = "min" THEN MinOf(ValuesIn(p)) ELSE MaxOf(ValuesIn(p))

\* Three rows went to one Min state and the second is smaller than the first.
C1_Witness ==
    /\ slot = "Fixed" /\ policy = "min"
    /\ \E p \in Places :
        /\ parts[p] = 1 /\ Len(hist[p]) = 3
        /\ log[hist[p][2]] < log[hist[p][1]]
        /\ Emit(st[p]) = log[hist[p][2]]

\* C2: a Min (Max) state over a StringSlot that was only fed rows emits exactly the
\* lexicographically smallest (largest) of the strings added, the empty string and
\* strings ending in a zero byte included, and the empty string when no row was
\* added.
C2_MinMaxOfStrings ==
    (slot = "String" /\ policy \in {"min", "max"}) =>
        \A p \in Places :
            parts[p] = 1 =>
                Emit(st[p]) =
                    IF hist[p] = <<>> THEN <<>>
                    ELSE IF policy = "min" THEN LexMinOf(ValuesIn(p)) ELSE LexMaxOf(ValuesIn(p))

\* C3: for Min and Max over a FixedSlot, two or three partial states merged in any
\* order and grouping emit what one state fed the whole row sequence emits.
C3_MergeMinMax ==
    (slot = "Fixed" /\ policy \in {"min", "max"}) =>
        \A p \in Places :
            parts[p] \in {2, 3} => Emit(st[p]) = Emit(AggregateWhole(p))

\* Three non-empty parts merged as a tree, against the order of the rows, and the
\* maximum came from a source.
C3_Witness ==
    /\ slot = "Fixed" /\ policy = "max"
    /\ \E p \in Places :
        /\ parts[p] = 3 /\ nested[p] /\ Len(hist[p]) = 3
        /\ ~Ascending(hist[p])
        /\ log[hist[p][1]] < log[hist[p][3]]
        /\ Emit(st[p]) = log[hist[p][3]]

C5_AnyMerge ==
    (slot = "Fixed" /\ policy = "any") =>
        /\ \A d \in Places, s \in Places, g \in FixedValues :
              LET r == changeIfBetterState(policy, slot, st[d], st[s], g)
              IN  /\ has(slot, st[d]) => r = st[d]
                  /\ (~has(slot, st[d]) /\ has(slot, st[s])) =>
                        has(slot, r) /\ r.value = st[s].value
        /\ \A p \in Places :
              /\ has(slot, st[p]) <=> hist[p] # <<>>
              /\ has(slot, st[p]) <=> has(slot, AggregateWhole(p))

\* An empty destination took the value of a populated source, and a third part was
\* merged into the populated result without changing it.
C5_Witness ==
    /\ slot = "Fixed" /\ policy = "any"
    /\ \E p \in Places, q \in Places, r \in Places :
        /\ q # r /\ spent[q] /\ spent[r] /\ parts[p] = 3
        /\ has(slot, st[q]) /\ has(slot, st[r])
        /\ hist[p] = hist[q] \o hist[r]
        /\ st[q].value # st[r].value
        /\ st[p].value = st[q].value

\* C6: for every policy and slot variant, merging never-populated states leaves the
\* destination never-populated: its fields and its result are those of a freshly
\* created state.
C6_EmptyMergeIsNoOp ==
    \A p \in Places :
        (parts[p] >= 2 /\ hist[p] = <<>> /\ ~offwire[p]) =>
            /\ st[p] = Fresh(slot)
            /\ Emit(st[p]) = Emit(Fresh(slot))

\* What a freshly created state holds after reading the bytes written for s.
RoundTrip(s) == read(policy, slot, Fresh(slot), write(policy, slot, s))

\* C7: for Min, Max, Any, AnyLast and AnyHeavy over a FixedSlot or a StringSlot, a
\* state serialized and deserialized into a fresh state emits the same result, and
\* for AnyHeavy has the same counter.
C7_RoundTrip ==
    (policy # "singleValueOrNull" /\ slot \in {"Fixed", "String"}) =>
        \A p \in Places :
            /\ Emit(RoundTrip(st[p])) = Emit(st[p])
            /\ policy = "anyHeavy" => RoundTrip(st[p]).counter = st[p].counter

\* An AnyHeavy state that counted a long string twice was written, and a fresh
\* state read the bytes.
C7_Witness ==
    /\ slot = "String" /\ policy = "anyHeavy"
    /\ \E p \in Places, q \in Places :
        /\ p # q /\ offwire[p] /\ ~offwire[q]
        /\ st[q].size > MAX_SMALL_STRING_SIZE /\ st[q].counter = 2
        /\ buf = write(policy, slot, st[q])
        /\ st[p] = read(policy, slot, Fresh(slot), buf)
        /\ Emit(st[p]) = log[1]

\* C8: an OrNull state serialized and deserialized into a fresh state emits the
\* same result, and a Conflicted state stays Conflicted.
C8_OrNullRoundTrip ==
    policy = "singleValueOrNull" =>
        \A p \in Places :
            /\ Emit(RoundTrip(st[p])) = Emit(st[p])
            /\ st[p].is_null => RoundTrip(st[p]).is_null

\* The encoding of the string v: <<1, 0>> for the empty string, v with an appended
\* zero byte counted in the length when v does not end in zero, v as it is otherwise.
EncodingOf(v) ==
    IF v = <<>> THEN <<1, 0>>
    ELSE IF v[Len(v)] # 0 THEN <<Len(v) + 1>> \o v \o <<0>>
    ELSE <<Len(v)>> \o v

\* C9: StringSlot write emits length 1 and a zero byte for an empty state; length+1,
\* the bytes and an appended zero byte for a state whose last byte is not zero; the
\* length and the bytes unchanged for a state whose last byte is zero.
C9_StringWireFormat ==
    slot = "String" =>
        \A p \in Places :
            LET s == st[p]
                content == StringGetStringRef(s).data
                out == slotWrite(slot, s)
            IN  /\ ~StringHas(s) => out = <<1, 0>>
                /\ (StringHas(s) /\ content[s.size] # 0) =>
                        out = <<s.size + 1>> \o content \o <<0>>
                /\ (StringHas(s) /\ content[s.size] = 0) =>
                        out = <<s.size>> \o content
                /\ (policy = "anyLast" /\ parts[p] = 1 /\ ~offwire[p]) =>
                        out = IF hist[p] = <<>> THEN <<1, 0>>
                              ELSE EncodingOf(log[hist[p][Len(hist[p])]])

\* A state that holds a long string not ending in zero was serialized.
C9_Witness ==
    /\ slot = "String" /\ policy = "anyLast" /\ wire.kind = "state"
    /\ \E p \in Places :
        /\ st[p].size > MAX_SMALL_STRING_SIZE
        /\ StringGetData(st[p])[st[p].size] # 0
        /\ buf = slotWrite(slot, st[p])
        /\ buf[1] = st[p].size + 1
        /\ Len(buf) = st[p].size + 2

\* C10: a non-empty string not ending in zero, read from either historical encoding
\* (the zero byte sent and counted, or the bytes alone), is emitted exactly; the
\* emission strips one final zero byte when there is one and nothing otherwise.
C10_LegacyRead ==
    slot = "String" =>
        /\ (wire.kind \in {"old", "new"} /\ wire.str # <<>> /\ wire.str[Len(wire.str)] # 0) =>
              /\ Emit(read(policy, slot, Fresh(slot), buf)) = wire.str
              /\ \A p \in Places : Emit(read(policy, slot, st[p], buf)) = wire.str
        /\ \A p \in Places :
              StringHas(st[p]) =>
                  LET content == StringGetStringRef(st[p]).data
                  IN  Emit(st[p]) = IF content[Len(content)] = 0
                                    THEN Take(content, Len(content) - 1)
                                    ELSE content

\* A state read the old encoding of a string of the inline threshold's length, which
\* with its zero byte no longer fits inline.
C10_Witness ==
    /\ slot = "String" /\ wire.kind = "old"
    /\ Len(wire.str) = MAX_SMALL_STRING_SIZE
    /\ \E p \in Places :
        /\ offwire[p]
        /\ st[p].size = MAX_SMALL_STRING_SIZE + 1
        /\ st[p].capacity = 64
        /\ Emit(st[p]) = wire.str

\* The number of positions of rows that hold v.
Occurrences(v, rows) == Cardinality({i \in DOMAIN rows : rows[i] = v})

\* C11: an AnyHeavy state over a FixedSlot that was fed, one by one, a row sequence
\* in which a value v holds more than half of the positions emits v, whatever the
\* order of the rows.
C11_MajorityWins ==
    (slot = "Fixed" /\ policy = "anyHeavy") =>
        \A p \in Places :
            parts[p] = 1 =>
                \A v \in FixedValues :
                    2 * Occurrences(v, Whole(p)) > Len(Whole(p)) => Emit(st[p]) = v

\* Five rows: two other values came first, the counter fell to zero, and the value
\* holding three of the five positions replaced the stored one.
C11_Witness ==
    /\ slot = "Fixed" /\ policy = "anyHeavy"
    /\ \E p \in Places :
        /\ parts[p] = 1 /\ Len(Whole(p)) = 5
        /\ Whole(p)[1] # Whole(p)[2]
        /\ Whole(p)[3] \notin {Whole(p)[1], Whole(p)[2]}
        /\ Occurrences(Whole(p)[3], Whole(p)) = 3
        /\ Emit(st[p]) = Whole(p)[3]
        /\ st[p].counter = 3

\* C12: an AnyHeavy merge(dst, src) of states whose stored values differ, with the
\* counter of dst below the counter of src (an empty dst has counter 0), leaves dst
\* with the value of src and with the counter of src.
C12_MergeAdoptsValueAndCounter ==
    (slot = "Fixed" /\ policy = "anyHeavy") =>
        \A d \in Places, s \in Places, g \in FixedValues :
            LET r == changeIfBetterState(policy, slot, st[d], st[s], g)
            IN  (d # s /\ ~isEqualToState(slot, st[d], st[s], g)
                       /\ st[d].counter < st[s].counter) =>
                    /\ has(slot, r) /\ r.value = st[s].value
                    /\ r.counter = st[s].counter

\* C13: an OrNull state over a FixedSlot that was only fed rows emits null when no
\* row was added or two different values were added, and the non-null common value
\* when all the added values are the same.
C13_OrNullOfRows ==
    (slot = "Fixed" /\ policy = "singleValueOrNull") =>
        \A p \in Places :
            parts[p] = 1 =>
                Emit(st[p]) =
                    IF Cardinality(ValuesIn(p)) = 1
                    THEN <<CHOOSE v \in ValuesIn(p) : TRUE>>
                    ELSE <<>>

\* Two equal rows and then a different one went to one state, which emits null.
C13_Witness ==
    /\ slot = "Fixed" /\ policy = "singleValueOrNull"
    /\ \E p \in Places :
        /\ parts[p] = 1 /\ Len(Whole(p)) = 3
        /\ Whole(p)[1] = Whole(p)[2] /\ Whole(p)[3] # Whole(p)[1]
        /\ st[p].value = <<Whole(p)[1]>>
        /\ Emit(st[p]) = <<>>

\* C14: for OrNull, two parts (either may be empty) aggregated separately and merged
\* in either direction emit null whenever the whole holds two different values, and
\* a merge with a Conflicted source leaves the destination Conflicted.
C14_OrNullMergeConflict ==
    (slot = "Fixed" /\ policy = "singleValueOrNull") =>
        /\ \A p \in Places :
              (parts[p] = 2 /\ Cardinality(ValuesIn(p)) >= 2) => Emit(st[p]) = <<>>
        /\ \A d \in Places, s \in Places, g \in FixedValues :
              (d # s /\ st[s].is_null) =>
                  changeIfBetterState(policy, slot, st[d], st[s], g).is_null

\* C15: under every policy and over every slot variant a state that is non-empty
\* stays non-empty: has() remains true after addRow, addBatch, addDefaultRun and
\* merge.
C15_StaysNonEmpty ==
    [][\A p \in Places : has(slot, st[p]) => has(slot, st'[p])]_vars

\* C16: constructing min or max over a type that is not comparable raises
\* ILLEGAL_TYPE_OF_ARGUMENT in the constructor, before a state exists or a row is
\* processed; constructing any, anyLast, anyHeavy or singleValueOrNull over that
\* type, or any function over a comparable type, raises nothing.
C16_ConstructorChecksComparable ==
    status # "unconstructed" =>
        IF policy \in {"min", "max"} /\ ~comparable
        THEN status = "ILLEGAL_TYPE_OF_ARGUMENT" /\ Places = {} /\ log = <<>>
        ELSE status = "ready"

\* The constructor of max over a type that is not comparable has thrown.
C16_Witness ==
    /\ policy = "max" /\ ~comparable
    /\ status = "ILLEGAL_TYPE_OF_ARGUMENT"
    /\ Places = {}

\* C17: a StringSlot deserialize that reads a negative stored length ends in a fatal
\* error for that state; it does not leave a state that is used afterwards.
C17_InvalidLengthIsFatal ==
    (slot = "String" /\ last.op = "deserialize" /\ buf[1] < 0) => status # "ready"

\* C18: for Any over every slot variant, addBatch leaves the state that calling
\* addRow in ascending order on each row of the range that passes the filter and is
\* not null leaves, and so the same emitted value.
C18_AnyBatchIsAddRows ==
    (policy = "any" /\ last.op = "addBatch") =>
        LET rowByRow == Aggregate(policy, slot, last.before, last.rows)
        IN  /\ st[last.place] = rowByRow
            /\ Emit(st[last.place]) = Emit(rowByRow)

\* C19: for Min, Max, AnyLast, AnyHeavy and OrNull, addBatch over [row_begin, row_end)
\* with an optional filter column and an optional null map leaves the state that
\* calling addRow in ascending row order on exactly the rows of the range with a
\* non-zero filter flag and a zero null-map entry leaves.
C19_BatchIsAddRows ==
    (policy # "any" /\ last.op = "addBatch") =>
        st[last.place] = Aggregate(policy, slot, last.before, last.rows)

\* A batch with a filter and a null map reached a fresh Max state over strings: a
\* row was outside the range, a row of the range failed the filter or was null, and
\* the one row that passed, a string that is not stored inline, became the value.
C19_Witness ==
    /\ policy = "max" /\ slot = "String" /\ last.op = "addBatch"
    /\ last.outside /\ last.filtered /\ last.nulls
    /\ Len(last.rows) = 1 /\ Len(last.rows[1]) > MAX_SMALL_STRING_SIZE
    /\ ~has(slot, last.before)
    /\ Emit(st[last.place]) = last.rows[1]

\* C20: for every policy and every run length n >= 1, addDefaultRun leaves a state
\* that emits what n consecutive addRow calls on row 0 of the column leave.
C20_DefaultRunIsAddRows ==
    (last.op = "addManyDefaults" /\ Len(last.rows) >= 1) =>
        Emit(st[last.place]) = Emit(Aggregate(policy, slot, last.before, last.rows))

\* C21: for Min, Max, Any and AnyLast over a FixedSlot of a native integer type, after
\* every sequence of compiled add and compiled merge steps from zero-filled states
\* the native memory holds the (has, value) pair that the same sequence of interpreted
\* calls leaves, and the compiled result is the interpreted emitted value, 0 for an
\* empty state.
C21_CompiledRefinesInterpreted ==
    (slot = "Fixed" /\ policy \in {"min", "max", "any", "anyLast"}) =>
        \A p \in Places :
            /\ native[p].has_value = has(slot, st[p])
            /\ has(slot, st[p]) => <<native[p].value>> = st[p].value
            /\ compileGetResult(native[p]) = Emit(st[p])
            /\ (last.op = "compileGetResult" /\ last.place = p) => last.result = Emit(st[p])

\* Compiled adds filled three Min states, compiled merges combined them as a tree with
\* the minimum coming from a source, and the compiled result was taken.
C21_Witness ==
    /\ slot = "Fixed" /\ policy = "min" /\ last.op = "compileGetResult"
    /\ parts[last.place] = 3 /\ nested[last.place] /\ Len(hist[last.place]) = 3
    /\ log[hist[last.place][3]] < log[hist[last.place][1]]
    /\ last.result = log[hist[last.place][3]]

\* C22: native compilation is reported unavailable for every aggregator over a
\* StringSlot or a GenericSlot and for AnyHeavy and OrNull over any slot, and a
\* compiled add, merge or get-result invoked on such an aggregator raises
\* NOT_IMPLEMENTED and touches no state.
C22_NotCompilable ==
    (slot \in {"String", "Generic"} \/ policy \in {"anyHeavy", "singleValueOrNull"}) =>
        /\ ~isCompilable(policy, slot)
        /\ \A p \in Places : st[p] = Fresh(slot) /\ native[p] = compileCreate
        /\ log = <<>>
        /\ last.op \in {"compileAdd", "compileMerge", "compileGetResult"} =>
              status = "NOT_IMPLEMENTED"

\* A compiled merge was invoked on an AnyHeavy aggregator over a FixedSlot.
C22_Witness ==
    /\ policy = "anyHeavy" /\ slot = "Fixed"
    /\ last.op = "compileMerge"
    /\ status = "NOT_IMPLEMENTED"
    /\ st[last.place] = Fresh(slot)

IsPowerOfTwo(c) == c > 0 /\ roundUpToPowerOfTwoOrZero(c) = c

\* C23: in every reachable StringSlot state, a size of at most the inline threshold
\* has its content in the inline buffer; a larger size has it in the arena buffer,
\* with capacity >= size and capacity a positive power of two that the signed 32-bit
\* capacity field holds.
C23_StringLayout ==
    slot = "String" =>
        \A p \in Places :
            LET s == st[p]
            IN  IF s.size <= MAX_SMALL_STRING_SIZE
                THEN StringGetData(s) = s.small_data
                ELSE /\ StringGetData(s) = s.large_data
                     /\ s.capacity >= s.size
                     /\ IsPowerOfTwo(s.capacity)

\* C24: across StringSlot change and read calls the capacity field never decreases,
\* and a call allocates from the arena only when its new length exceeds both the
\* inline threshold and the capacity it found (at most once per call); hence a long
\* string, a short one and a long one of at most the first length cost one allocation.
C24_CapacityOnlyGrows ==
    [][slot = "String" =>
        \A p \in Places :
            /\ st'[p].capacity >= st[p].capacity
            /\ st'[p].allocs # st[p].allocs =>
                   /\ st'[p].allocs = st[p].allocs + 1
                   /\ st'[p].size > MAX_SMALL_STRING_SIZE
                   /\ st'[p].size > st[p].capacity]_vars

\* C25: has() is true exactly when a change has recorded a value since the state was
\* created (the first row of a state is always recorded); for a StringSlot has() is
\* true iff size >= 0, so a recorded empty string reports has() true.
C25_HasIffRecorded ==
    \A p \in Places :
        /\ has(slot, st[p]) <=> hist[p] # <<>>
        /\ slot = "String" => (has(slot, st[p]) <=> st[p].size >= 0)

\* A range whose begin lies after its end.
Malformed(s) == s.holds = "Range" /\ s.range[1] > s.range[2]

\* C26: a Selector constructed with begin > end is rejected with a logic error: no
\* size(), operator[] or iterator call on it returns a size or an index.
C26_MalformedRangeRejected ==
    (Malformed(selector) /\ last.op \in {"size", "operator[]", "operator*", "operator++"})
        => status = "LOGICAL_ERROR"

\* C27: every out-of-range access raises a logic error and returns no index:
\* operator[](idx) and the dereference of an iterator at idx >= size(), the increment
\* of an iterator at idx >= size(), and split(num_rows) with num_rows > size().
C27_OutOfRangeRaises ==
    /\ (last.op \in {"operator[]", "operator*", "operator++"}
            /\ last.idx >= SelectorSize(selector))
          => (last.threw /\ status = "LOGICAL_ERROR" /\ "result" \notin DOMAIN last
                /\ (last.op = "operator++" => it = last.idx))
    /\ (last.op = "split" /\ last.num_rows > SelectorSize(last.before))
          => (last.threw /\ status = "LOGICAL_ERROR" /\ "parts" \notin DOMAIN last
                /\ selector = last.before)
C27_Witness ==
    /\ status = "LOGICAL_ERROR"
    /\ last.op = "operator[]"
    /\ selector.holds = "Selector"
    /\ last.idx = SelectorSize(selector)
    /\ last.idx > 0

\* The slot holds a value recorded by a change or a read.
Recorded(sl, s) ==
    CASE sl = "Fixed" -> s.has_value
      [] sl = "String" -> s.size >= 0
      [] sl = "Generic" -> s.value # <<>>

\* The recorded value of the slot is v.
StoredIs(sl, s, v) ==
    CASE sl = "Fixed" -> s.value = <<v>>
      [] sl = "String" -> RefEq(RowRef(v), StringGetStringRef(s))
      [] sl = "Generic" -> s.value = <<v>>

\* C28: an AnyHeavy addRow of v does exactly one of three things: on a non-empty
\* state whose stored value equals v, counter + 1 and the value kept; otherwise, on
\* counter 0, v becomes the stored value and counter becomes 1; otherwise
\* counter - 1 and the value kept.
C28_AnyHeavyRowRule ==
    [][(policy = "anyHeavy" /\ Len(log') = Len(log) + 1) =>
        \A p \in Places :
            hist'[p] # hist[p] =>
                LET s == st[p]
                    v == log'[Len(log')]
                IN  IF Recorded(slot, s) /\ StoredIs(slot, s, v)
                    THEN st'[p] = [s EXCEPT !.counter = s.counter + 1]
                    ELSE IF s.counter = 0
                         THEN /\ Recorded(slot, st'[p])
                              /\ StoredIs(slot, st'[p], v)
                              /\ st'[p].counter = 1
                         ELSE st'[p] = [s EXCEPT !.counter = s.counter - 1]]_vars

\* The recorded values of two slots are equal.
StoredSame(sl, a, b) ==
    CASE sl = "Fixed" -> a.value = b.value
      [] sl = "String" -> RefEq(StringGetStringRef(a), StringGetStringRef(b))
      [] sl = "Generic" -> a.value = b.value

\* C29: an AnyHeavy merge(dst, src) never modifies src; when both stored values are
\* equal, dst keeps its value and gets counter_dst + counter_src; when they differ,
\* dst is non-empty and counter_dst >= counter_src, dst keeps its value and gets
\* counter_dst - counter_src.
C29_AnyHeavyMergeRule ==
    [][policy = "anyHeavy" =>
        \A dst \in Places, src \in Places :
            (parts'[dst] # parts[dst] /\ spent'[src] /\ ~spent[src]) =>
                LET d == st[dst]
                    s == st[src]
                    equal == Recorded(slot, d) /\ Recorded(slot, s) /\ StoredSame(slot, d, s)
                IN  /\ st'[src] = s
                    /\ equal => st'[dst] = [d EXCEPT !.counter = d.counter + s.counter]
                    /\ (~equal /\ Recorded(slot, d) /\ d.counter >= s.counter) =>
                           st'[dst] = [d EXCEPT !.counter = d.counter - s.counter]]_vars

\* A step of Min or Max in which a tie was offered: the row added, or the source
\* merged, holds the value stored in the non-empty destination.
TieKept ==
    /\ Len(log') = Len(log) + 1 =>
          \A p \in Places :
              LET s == st[p]
                  v == log'[Len(log')]
                  returned == IF policy = "min"
                              THEN changeIfLessRowReturns(slot, s, v)
                              ELSE changeIfGreaterRowReturns(slot, s, v)
              IN  (hist'[p] # hist[p] /\ Recorded(slot, s) /\ StoredIs(slot, s, v)) =>
                      (st'[p] = s /\ ~returned)
    /\ \A dst \in Places, src \in Places :
          LET d == st[dst]
              s == st[src]
              merged == parts'[dst] # parts[dst] /\ spent'[src] /\ ~spent[src]
              tie == Recorded(slot, d) /\ Recorded(slot, s) /\ StoredSame(slot, d, s)
              returned == IF policy = "min"
                          THEN changeIfLessStateReturns(slot, d, s)
                          ELSE changeIfGreaterStateReturns(slot, d, s)
          IN  (merged /\ tie) => (st'[dst] = d /\ ~returned)

\* C30: for every slot variant, changeIfLess and changeIfGreater, given a row or a
\* state whose value equals the value stored in a non-empty slot, return false and
\* leave the slot unchanged.
C30_TiesChangeNothing == [][(policy \in {"min", "max"}) => TieKept]_vars

\* C31: the OrNull flags are one-way: no addRow, default run or merge sets
\* first_value back to true once it is false, and none clears is_null once it is
\* set, so a state that emits null because of a conflict emits null ever after.
C31_OrNullOneWay ==
    [][policy = "singleValueOrNull" =>
        \A p \in Places :
            /\ ~st[p].first_value => ~st'[p].first_value
            /\ st[p].is_null => (st'[p].is_null /\ Emit(st[p])' = <<>>)]_vars
C31_Witness ==
    /\ policy = "singleValueOrNull"
    /\ last.op = "addManyDefaults"
    /\ last.before.is_null
    /\ ~last.before.first_value
    /\ last.rows # <<>>
    /\ parts[last.place] = 2

\* C35: a Selector constructed from an index list enumerates that list unchanged:
\* size() is the length of the list and operator[](i) is its i-th index, whatever
\* the order of the indices and whether or not some repeat.
C35_ListEnumeratedUnchanged ==
    (status = "ready" /\ last.op = "Selector" /\ "list" \in DOMAIN last) =>
        /\ SelectorSize(selector) = Len(last.list)
        /\ \A i \in 0 .. (Len(last.list) - 1) :
               /\ ~SelectorAtThrows(selector, i)
               /\ SelectorAt(selector, i) = last.list[i + 1]

\* C32: a ScatteredBlock constructed from a block without a selector selects every
\* row: rows() is block.rows() (0 for an empty block), wasScattered() is false and
\* iterating the selector yields 0, 1, ..., block.rows() - 1.
C32_TrivialSelectsAll ==
    (last.op = "ScatteredBlock" /\ "list" \notin DOMAIN last) =>
        /\ selectedRows(selector) = Len(block)
        /\ ~wasScattered(block, selector)
        /\ \A i \in 0 .. (Len(block) - 1) :
               ~IteratorDerefThrows(selector, i) /\ IteratorDeref(selector, i) = i

\* C33: after filterBySelector the block holds exactly the rows selected before the
\* call, in selector order, rows() is their number and wasScattered() is false; on a
\* block that was not scattered the call changes nothing.
C33_FilterBySelector ==
    last.op = "filterBySelector" =>
        /\ status = "ready"
        /\ ~wasScattered(last.before.block, last.before.selector) =>
               (block = last.before.block /\ selector = last.before.selector)
        /\ block = Selected(last.before.block, last.before.selector)
        /\ selectedRows(selector) = selectedRows(last.before.selector)
        /\ ~wasScattered(block, selector)

\* C34: cut(num_rows) partitions the selected rows: rows() of this block and of the
\* returned block add up to rows() before the call, the returned block has 0 rows
\* when num_rows >= rows(), this block holds the first min(num_rows, rows()) rows
\* selected before, in order, and the returned block selects the remaining ones.
C34_CutPartitions ==
    last.op = "cut" =>
        LET before == last.before
            was == selectedRows(before.selector)
            k == IF last.num_rows < was THEN last.num_rows ELSE was
        IN  /\ status = "ready"
            /\ selectedRows(selector) + selectedRows(last.returned.selector) = was
            /\ last.num_rows >= was => selectedRows(last.returned.selector) = 0
            /\ Selected(block, selector) = Take(Selected(before.block, before.selector), k)
            /\ Selected(last.returned.block, last.returned.selector)
                   = Drop(Selected(before.block, before.selector), k)

\* C36: whenever checkBridgeIsRunning returns true, the bridge holds a handler for
\* the dictionary id exactly when library_initialized is true; a ping reporting the
\* dictionary present while the library is not initialized raises a logical error;
\* a ping reporting it absent while the library is initialized calls
\* initLibrary(false), and false is returned if that fails or throws; a failed ping
\* returns false.
C36_BridgeInSync ==
    last.op = "checkBridgeIsRunning" =>
        /\ last.returned = "true" => (status = "ready" /\ (handler <=> library_initialized))
        /\ (last.ping = PingMessage(DICTIONARY_CHECK_LENGTH + 1, "1") /\ ~library_initialized)
              => (last.returned = "LOGICAL_ERROR" /\ status = "LOGICAL_ERROR")
        /\ (last.ping = PingMessage(DICTIONARY_CHECK_LENGTH + 1, "0") /\ library_initialized)
              => (last.reinit # "none"
                    /\ (last.reinit \in {"false", "throws"} => last.returned = "false"))
        /\ ~last.ping.ok => last.returned = "false"
C36_Witness ==
    /\ last.op = "checkBridgeIsRunning"
    /\ last.returned = "true"
    /\ last.reinit = "true"
    /\ handler /\ library_initialized

\* C37: for a StringSlot, the bytes written for a never-populated state, read into a
\* fresh state, give a state that is again never-populated: has() is false, and a
\* following Any or Min addRow of a non-empty string x makes the state emit x.
C37_EmptyStringRoundTrip ==
    (/\ slot = "String"
     /\ status = "ready"
     /\ last.op = "deserialize"
     /\ last.before = Fresh(slot)
     /\ buf = write(policy, slot, Fresh(slot))) =>
        /\ ~has(slot, st[last.place])
        /\ policy \in {"any", "min"} =>
               \A x \in ColumnValues(slot) \ {<<>>} :
                   Emit(changeIfBetterRow(policy, slot, st[last.place], x)) = x

\* C38: for every policy, a never-populated state is an identity for merge with
\* respect to the emitted result: merging a never-populated source into any
\* destination leaves the destination's emitted result unchanged, and merging any
\* source into a never-populated destination makes the destination emit what the
\* source emits.
MergedInto(dst, src) ==
    /\ dst # src
    /\ ~spent[src] /\ spent'[src]
    /\ parts'[dst] = parts[dst] + parts[src]
NeverPopulated(p) == st[p] = Fresh(slot) /\ hist[p] = <<>> /\ ~offwire[p]
C38_EmptyIsMergeIdentity ==
    [][\A dst, src \in Places :
          (status = "ready" /\ MergedInto(dst, src)) =>
              /\ NeverPopulated(src) => Emit(st'[dst]) = Emit(st[dst])
              /\ NeverPopulated(dst) => Emit(st'[dst]) = Emit(st[src])]_vars

\* C39: addManyDefaults with a run length of 0 leaves the state unchanged for every
\* policy: a state that was never populated is still never populated afterwards and
\* emits the same result as before the call.
C39_ZeroRunChangesNothing ==
    (status = "ready" /\ last.op = "addManyDefaults" /\ last.rows = <<>>) =>
        /\ st[last.place] = last.before
        /\ ~has(slot, last.before) => ~has(slot, st[last.place])
        /\ Emit(st[last.place]) = Emit(last.before)

\* C40: the AnyHeavy unsigned 64-bit counter never wraps below zero in any state
\* reachable from an empty state by rows, runs of default rows and merges: a row
\* decrements it only when it is greater than 0 and a merge subtracts the source
\* counter only when the destination counter is at least as large, so the counter
\* never exceeds the number of rows the state incorporates.
C40_CounterNeverWraps ==
    policy = "anyHeavy" =>
        \A p \in Places : st[p].counter <= Len(hist[p])
\* A merge of two states holding different values has subtracted the source counter.
C40_Witness ==
    /\ policy = "anyHeavy"
    /\ \E p \in Places :
          /\ parts[p] = 2
          /\ Len(hist[p]) = 2
          /\ log[hist[p][1]] # log[hist[p][2]]
          /\ has(slot, st[p])
          /\ st[p].counter = 0

====
